---- MODULE Spec2Model ----
(***************************************************************************)
(* Trigger-and-lifecycle engine of the Hyperliquid trading bot:            *)
(*   - TradeTracker (src/tracker.py): the position ledger,                 *)
(*   - TradingViewWebhookService (src/tv_service.py): pending orders, the  *)
(*     price monitor that triggers or negates them, and the alert handlers,*)
(*   - CandleCloseStopLossManager (src/candle_service.py): the candle-close*)
(*     stop-loss registry and its monitor.                                 *)
(*                                                                         *)
(* Units.  Prices are integers.  Quantities are counted in half lots (one  *)
(* lot is the exchange's size step, szDecimals = 0), so that the 50% close *)
(* of TP1 (original_qty * 0.5) stays integral.  realized_pnl_usd is        *)
(* counted in half USD accordingly (price difference times half lots).     *)
(* Floating-point rounding is not modelled: products and sums are exact.   *)
(***************************************************************************)
EXTENDS Integers, Sequences, FiniteSets, TLC

\* ------------------------------------------------------------------ bounds
MaxEntries == 1      \* entry alerts accepted over a run
MaxTs == 1           \* completed candles per symbol are numbered 0..MaxTs
MaxDetails == 2      \* ledger-only runs: execution_details entries per trade
MaxLedgerTrades == 1 \* ledger-only runs: trades added
MaxOpen == 2         \* stop-monitor runs: entries handed to execution in one tick
MaxRaceEntries == 2  \* start-up runs: entry alerts accepted
MaxTpTrades == 1     \* take-profit runs: active trades in the ledger at the start

\* --------------------------------------------------------- program constants
KFactor == 1000      \* get_correct_price multiplies "k" assets by 1000
MaxActiveTrades == 5 \* handle_entry_alert refuses at 5 active trades
MinUsd == 20         \* min_usd floor of calculate_optimal_tp1_close_amount

None == -1           \* Python None where a number is expected (prices, order ids)
NoneStr == "None"    \* Python None where a string is expected
Symbols == {"BTC", "PEPE"}
specialAssets == {"PEPE", "SHIB", "FLOKI", "BONK"}
Timeframes == {"1h"}
Sides == {"long", "short"}

\* The symbols the exchange has data for in the run at hand.
Listed(mk) == { key[1] : key \in DOMAIN mk }

\* Completed candles the exchange can report: [high, low, close].
CandleShapes ==
    { [high |-> 20, low |-> 10, close |-> 10],
      [high |-> 20, low |-> 10, close |-> 20],
      [high |-> 30, low |-> 20, close |-> 25] }
\* Last prices the exchange can report (raw, before get_correct_price).
Prices == {10, 25}
\* A market that trades around 100 (the entry scenario): the candle with high
\* 110 and low 100, closing inside its range, at its low, or (the candle that
\* follows) below it; and the last prices 99, 104 and 106.
ScenarioShapes ==
    { [high |-> 110, low |-> 100, close |-> 105],
      [high |-> 110, low |-> 100, close |-> 100],
      [high |-> 110, low |-> 100, close |-> 99] }
ScenarioPrices == {99, 104, 106}
InScenario(candle) == candle \in { [timestamp |-> candle.timestamp] @@ sh : sh \in ScenarioShapes }
\* What the exchange can report next on a market whose latest candle is candle.
ShapesAfter(candle) == IF InScenario(candle) THEN ScenarioShapes ELSE CandleShapes
Quotes(candle) == IF InScenario(candle) THEN ScenarioPrices ELSE Prices
\* calculate_dynamic_usd_amount: max(20, 2% of the account value).
AmountsUsd == {60}

valid_statuses ==
    { "active", "tp1_achieved", "tp2_achieved", "fully_closed",
      "stopped_out", "negated", "manual_close", "cancelled" }
active_statuses == {"active", "tp1_achieved"}

VARIABLES
    trades,              \* TradeTracker.trades: uuid -> trade record (in insertion order)
    json_file,           \* trades.json: [exists, content]
    backup_file,         \* trades.json.backup: [exists, content]
    pending_trades,      \* TradingViewWebhookService.pending_trades: id -> PendingTrade
    pending_trades_lock, \* holder of pending_trades_lock: "free" | "monitor"
    monitoring_active,   \* TradingViewWebhookService.monitoring_active
    mon,                 \* locals of the _monitor_prices thread
    exec_threads,        \* running _execute_pending_trade threads
    active_stops,        \* CandleCloseStopLossManager.active_stops: order_id -> watch
    monitoring,          \* CandleCloseStopLossManager.monitoring
    cs,                  \* locals of the _monitor_loop thread
    market,              \* exchange: <<symbol, timeframe>> -> latest completed candle
    next_oid,            \* exchange: next order id
    market_orders,       \* exchange: market orders filled so far
    sl_orders,           \* exchange: stop orders requested through set_sl
    serial,              \* number of PendingTrade objects created (object identity)
    hist,                \* history: what happened to each PendingTrade object
    obs                  \* history: what the monitor evaluation just made fetched
                         \* (again: the watch had fetched that candle before), or
                         \* what the entry alert just handled was answered

vars ==
    << trades, json_file, backup_file, pending_trades, pending_trades_lock,
       monitoring_active, mon, exec_threads, active_stops, monitoring, cs,
       market, next_oid, market_orders, sl_orders, serial, hist, obs >>

ledgerVars == << trades, json_file, backup_file >>
tvVars == << pending_trades, pending_trades_lock, monitoring_active, mon, exec_threads >>
candleVars == << active_stops, monitoring, cs >>
exchangeVars == << market, next_oid, market_orders, sl_orders >>

\* =================================================================== ledger
\* A ledger value L is [trades, json_file, backup_file]; every operation maps
\* a ledger to a ledger.

Ledger(t, j, b) == [trades |-> t, json_file |-> j, backup_file |-> b]

\* json.dump(self.trades, indent=2, default=str) and json.load.  A trade is
\* written as a JSON object, field by field: Python None becomes null, whatever
\* the field, and every other value of a trade is a number, a string, a bool or
\* a list, written as such (default=str is for values json cannot write: none
\* of the ledger's values is one).  The fields below are those that hold None.
NullableNumbers == {"exit_price", "tp1_price", "tp2_price", "sl_trigger_price",
                    "absolute_sl_order_id"}
NullableStrings == {"sl_triggered_by", "closed_at"}
JsonNull == [json |-> "null"]

JsonValue(field, v) ==
    IF field \in NullableNumbers
    THEN IF v = None THEN JsonNull ELSE [json |-> "number", v |-> v]
    ELSE IF field \in NullableStrings
    THEN IF v = NoneStr THEN JsonNull ELSE [json |-> "string", v |-> v]
    ELSE v

PyValue(field, j) ==
    IF field \in NullableNumbers
    THEN IF j.json = "null" THEN None ELSE j.v
    ELSE IF field \in NullableStrings
    THEN IF j.json = "null" THEN NoneStr ELSE j.v
    ELSE j

JsonDump(t) ==
    [u \in DOMAIN t |-> [field \in DOMAIN t[u] |-> JsonValue(field, t[u][field])]]

JsonLoad(doc) ==
    [u \in DOMAIN doc |-> [field \in DOMAIN doc[u] |-> PyValue(field, doc[u][field])]]

\* A file: whether it exists, whether json.load can read it, and the document
\* it holds (for an unreadable file, the document it is the damaged text of).
NoFile == [exists |-> FALSE, valid |-> FALSE, content |-> << >>]
File(content) == [exists |-> TRUE, valid |-> TRUE, content |-> content]

\* save_to_json that skips the backup copy.
save_to_json_NoBackup(L) ==
    [ L EXCEPT !.json_file = File(JsonDump(L.trades)) ]

\* save_to_json: copy the existing file to .backup, then write the trades.
save_to_json(L) ==
    [ L EXCEPT !.backup_file = IF L.json_file.exists THEN L.json_file ELSE @,
               !.json_file = File(JsonDump(L.trades)) ]

\* The uuid of the next trade: uuid4 is modelled by creation order.
NewUuid(L) == Len(L.trades) + 1

\* original_qty_asset or qty_asset
OrElse(a, b) == IF a = None \/ a = 0 THEN b ELSE a

add_trade(L, currency, timeframe, qty_usd, qty_asset, entry_price, side, stop_loss_price, hyperliquid_order_id, original_qty_asset) ==
    LET u == NewUuid(L)
        trade_data ==
          [ uuid |-> u,
            currency |-> currency,
            timeframe |-> timeframe,
            qty_usd |-> qty_usd,
            qty_asset |-> qty_asset,
            original_qty_asset |-> OrElse(original_qty_asset, qty_asset),
            current_qty_asset |-> qty_asset,
            entry_price |-> entry_price,
            exit_price |-> None,
            side |-> side,
            stop_loss_price |-> stop_loss_price,
            status |-> "active",
            hyperliquid_order_id |-> hyperliquid_order_id,
            absolute_sl_price |-> stop_loss_price,
            absolute_sl_active |-> TRUE,
            absolute_sl_order_id |-> None,
            candle_close_sl_price |-> stop_loss_price,
            candle_close_sl_active |-> TRUE,
            candle_sl_timeframe |-> timeframe,
            tp1_achieved |-> FALSE,
            tp1_price |-> None,
            tp1_qty_closed |-> 0,
            tp2_achieved |-> FALSE,
            tp2_price |-> None,
            tp2_qty_closed |-> 0,
            realized_pnl_usd |-> 0,
            sl_triggered_by |-> NoneStr,
            sl_trigger_price |-> None,
            closed_at |-> NoneStr,
            execution_details |-> << >> ]
    IN save_to_json([L EXCEPT !.trades = Append(L.trades, trade_data)])

\* _update_realized_pnl: (pnl_per_unit / entry) * (qty * entry)
PortionPnl(trade, exit_price, qty_closed) ==
    LET pnl_per_unit == IF trade.side = "long"
                        THEN exit_price - trade.entry_price
                        ELSE trade.entry_price - exit_price
    IN pnl_per_unit * qty_closed

update_realized_pnl(trade, exit_price, qty_closed) ==
    [trade EXCEPT !.realized_pnl_usd = @ + PortionPnl(trade, exit_price, qty_closed)]

ExecutionDetail(type, price, qty, remaining) ==
    [type |-> type, price |-> price, qty |-> qty, remaining_qty |-> remaining]

\* update_trade_status: new_status is one of valid_statuses (else ValueError).
update_trade_status(L, trade_uuid, new_status, exit_price) ==
    IF trade_uuid \notin DOMAIN L.trades THEN L
    ELSE LET trade == L.trades[trade_uuid]
             t1 == [trade EXCEPT !.status = new_status]
             t2 == IF exit_price # None THEN [t1 EXCEPT !.exit_price = exit_price] ELSE t1
             t3 == IF new_status \in {"fully_closed", "stopped_out", "negated", "manual_close"}
                   THEN [t2 EXCEPT !.closed_at = "set"] ELSE t2
         IN save_to_json([L EXCEPT !.trades[trade_uuid] = t3])

update_trade_tp1(L, trade_uuid, tp1_price, qty_closed) ==
    IF trade_uuid \notin DOMAIN L.trades THEN L
    ELSE LET trade == L.trades[trade_uuid]
             remaining == trade.current_qty_asset - qty_closed
             t1 == [trade EXCEPT !.tp1_achieved = TRUE,
                                 !.tp1_price = tp1_price,
                                 !.tp1_qty_closed = qty_closed,
                                 !.current_qty_asset = remaining,
                                 !.status = "tp1_achieved",
                                 !.execution_details =
                                     Append(@, ExecutionDetail("tp1", tp1_price, qty_closed, remaining))]
         IN save_to_json([L EXCEPT !.trades[trade_uuid] =
                              update_realized_pnl(t1, tp1_price, qty_closed)])

update_stop_loss_triggered(L, trade_uuid, triggered_by, trigger_price) ==
    IF trade_uuid \notin DOMAIN L.trades THEN L
    ELSE save_to_json([L EXCEPT !.trades[trade_uuid] =
                           [@ EXCEPT !.sl_triggered_by = triggered_by,
                                     !.sl_trigger_price = trigger_price,
                                     !.absolute_sl_active = FALSE,
                                     !.candle_close_sl_active = FALSE]])

deactivate_stop_losses(L, trade_uuid) ==
    IF trade_uuid \notin DOMAIN L.trades THEN L
    ELSE save_to_json([L EXCEPT !.trades[trade_uuid] =
                           [@ EXCEPT !.absolute_sl_active = FALSE,
                                     !.candle_close_sl_active = FALSE]])

\* Mutant: TP2 closes the quantity it is given, not what remains.
update_trade_tp2_ClosesArgument(L, trade_uuid, tp2_price, qty_closed) ==
    IF trade_uuid \notin DOMAIN L.trades THEN L
    ELSE LET trade == L.trades[trade_uuid]
             t1 == [trade EXCEPT !.tp2_achieved = TRUE,
                                 !.tp2_price = tp2_price,
                                 !.tp2_qty_closed = qty_closed,
                                 !.current_qty_asset = @ - qty_closed,
                                 !.status = "fully_closed",
                                 !.closed_at = "set",
                                 !.exit_price = tp2_price,
                                 !.execution_details =
                                     Append(@, ExecutionDetail("tp2", tp2_price, qty_closed,
                                                               trade.current_qty_asset - qty_closed))]
         IN save_to_json([L EXCEPT !.trades[trade_uuid] =
                              update_realized_pnl(t1, tp2_price, qty_closed)])

\* qty_closed is accepted and ignored: the remaining quantity is closed.
update_trade_tp2(L, trade_uuid, tp2_price, qty_closed) ==
    IF trade_uuid \notin DOMAIN L.trades THEN L
    ELSE LET trade == L.trades[trade_uuid]
             remaining_qty == trade.current_qty_asset
             t1 == [trade EXCEPT !.tp2_achieved = TRUE,
                                 !.tp2_price = tp2_price,
                                 !.tp2_qty_closed = remaining_qty,
                                 !.current_qty_asset = 0,
                                 !.status = "fully_closed",
                                 !.closed_at = "set",
                                 !.exit_price = tp2_price,
                                 !.execution_details =
                                     Append(@, ExecutionDetail("tp2", tp2_price, remaining_qty, 0))]
         IN save_to_json([L EXCEPT !.trades[trade_uuid] =
                              update_realized_pnl(t1, tp2_price, remaining_qty)])

CloseReasons == {"tp1", "tp2", "negated", "stopped_out", "manual"}

FullCloseType(reason) ==
    CASE reason = "tp1" -> "full_close_tp1"
      [] reason = "tp2" -> "full_close_tp2"
      [] reason = "negated" -> "full_close_negated"
      [] reason = "stopped_out" -> "full_close_stopped_out"
      [] OTHER -> "full_close_manual"

status_map(reason) ==
    CASE reason = "tp1" -> "tp1_achieved"
      [] reason = "tp2" -> "fully_closed"
      [] reason = "negated" -> "negated"
      [] reason = "stopped_out" -> "stopped_out"
      [] OTHER -> "manual_close"

close_trade_fully(L, trade_uuid, exit_price, reason) ==
    IF trade_uuid \notin DOMAIN L.trades THEN L
    ELSE LET trade == L.trades[trade_uuid]
             remaining_qty == trade.current_qty_asset
             t1 == [trade EXCEPT !.exit_price = exit_price,
                                 !.current_qty_asset = 0,
                                 !.closed_at = "set",
                                 !.execution_details =
                                     Append(@, ExecutionDetail(FullCloseType(reason),
                                                               exit_price, remaining_qty, 0))]
             t2 == update_realized_pnl(t1, exit_price, remaining_qty)
         IN update_trade_status([L EXCEPT !.trades[trade_uuid] = t2],
                                trade_uuid, status_map(reason), exit_price)

close_trade_partial(L, trade_uuid, exit_price, qty_to_close) ==
    IF trade_uuid \notin DOMAIN L.trades THEN L
    ELSE LET trade == L.trades[trade_uuid]
             remaining == trade.current_qty_asset - qty_to_close
             t1 == [trade EXCEPT !.current_qty_asset = remaining,
                                 !.execution_details =
                                     Append(@, ExecutionDetail("partial_close_partial",
                                                               exit_price, qty_to_close, remaining))]
             t2 == update_realized_pnl(t1, exit_price, qty_to_close)
             t3 == IF remaining <= 0
                   THEN [t2 EXCEPT !.status = "fully_closed",
                                   !.closed_at = "set",
                                   !.exit_price = exit_price]
                   ELSE t2
         IN IF qty_to_close > trade.current_qty_asset THEN L
            ELSE save_to_json([L EXCEPT !.trades[trade_uuid] = t3])

\* Queries.
get_trades_by_symbol_timeframe(t, symbol, timeframe) ==
    { u \in DOMAIN t : t[u].currency = symbol /\ t[u].timeframe = timeframe }

get_active_trades(t) == { u \in DOMAIN t : t[u].status \in active_statuses }

get_trade_by_hyperliquid_id(t, hl_order_id) ==
    LET found == { u \in DOMAIN t : t[u].hyperliquid_order_id = hl_order_id }
    IN IF found = {} THEN None
       ELSE CHOOSE u \in found : \A v \in found : u <= v

\* ================================================================= exchange
\* HyperLiquidExecutionService (src/execution_service.py) and the exchange
\* behind it, seen through the calls the engine makes.

\* get_asset_name: special assets trade as "k" + name.
get_asset_name(rawAssetName) ==
    [k |-> rawAssetName \in specialAssets, raw |-> rawAssetName]

\* get_correct_price: AssetName.startswith("k") -> price * 1000
get_correct_price(AssetName, price) ==
    IF AssetName.k THEN price * KFactor ELSE price

\* round(a / b) of Python 3: to the nearest integer, ties to the even one.
RoundHalfEven(a, b) ==
    LET q == a \div b
        r == a % b
    IN IF 2 * r < b THEN q
       ELSE IF 2 * r > b THEN q + 1
       ELSE IF q % 2 = 0 THEN q ELSE q + 1

\* A market order that the exchange fills: {"asset_amount", "order_id", ...}.
\* An order of size 0 is rejected; a filled order fills the requested size.
\* by and ref record which code placed the order and for what (the pending
\* trade's serial, the trade's uuid, or the watched order's number).
MarketOrder(oid, symbol, is_buy, amount, by, ref) ==
    [order_id |-> oid, symbol |-> symbol, is_buy |-> is_buy,
     asset_amount |-> amount, by |-> by, ref |-> ref]

\* str(x) of an exchange result: the text depends on what was stringified.
\* str(res["order_id"]) and str(res) of the same result are different strings.
StrOrderId(oid) == [of |-> "order_id", n |-> oid]
StrRes(oid) == [of |-> "res", n |-> oid]

\* get_reference_candle: ohlcv[-2] as a dict, None when the fetch fails.
CandleOf(mk, symbol, timeframe) == mk[<<symbol, timeframe>>]

\* datetime.fromtimestamp(candle_data["timestamp"] / 1000)
MsPerSecond == 1000
CandleTime(candle) == candle.timestamp \div MsPerSecond

\* ============================================== candle-close stop-loss manager
\* A manager value C is [active_stops, monitoring, started]: started counts the
\* monitor threads start_monitoring has created in the operation.

CandleCloseStopLoss(order_id, asset, stop_price, timeframe, is_long, position_size) ==
    [order_id |-> order_id, asset |-> asset, stop_price |-> stop_price,
     timeframe |-> timeframe, is_long |-> is_long,
     position_size |-> position_size, last_checked_candle |-> None]

start_monitoring(C) ==
    IF ~C.monitoring
    THEN [C EXCEPT !.monitoring = TRUE, !.started = @ + 1]
    ELSE C

stop_monitoring(C) == [C EXCEPT !.monitoring = FALSE]

\* The empty string as an order id.
StrEmpty == [of |-> "", n |-> 0]

\* The validation of add_candle_close_stop_loss.
ValidStopArgs(order_id, asset, stop_price, timeframe, position_size) ==
    /\ ~(order_id = StrEmpty \/ asset = "" \/ timeframe = "")
    /\ ~(stop_price <= 0 \/ position_size <= 0)

\* Mutant: an order_id already watched keeps its watch.
add_candle_close_stop_loss_KeepsOld(C, order_id, asset, stop_price, timeframe, is_long, position_size) ==
    IF ~ValidStopArgs(order_id, asset, stop_price, timeframe, position_size) THEN C
    ELSE start_monitoring(
           [C EXCEPT !.active_stops =
               [k \in DOMAIN @ \cup {order_id} |->
                   IF k \in DOMAIN @ THEN @[k]
                   ELSE CandleCloseStopLoss(order_id, asset, stop_price, timeframe,
                                            is_long, position_size)]])

add_candle_close_stop_loss(C, order_id, asset, stop_price, timeframe, is_long, position_size) ==
    IF ~ValidStopArgs(order_id, asset, stop_price, timeframe, position_size) THEN C
    ELSE start_monitoring(
           [C EXCEPT !.active_stops =
               [k \in DOMAIN @ \cup {order_id} |->
                   IF k = order_id
                   THEN CandleCloseStopLoss(order_id, asset, stop_price, timeframe,
                                            is_long, position_size)
                   ELSE @[k]]])

\* What add_candle_close_stop_loss returns: False for refused arguments, and
\* False as well when the notification after the registration raises.
add_candle_close_stop_loss_returns(order_id, asset, stop_price, timeframe, position_size, send_ok) ==
    ValidStopArgs(order_id, asset, stop_price, timeframe, position_size) /\ send_ok

\* Mutant: removing the last watch leaves the flag alone; an unknown id clears
\* the registry.
remove_stop_loss_Clears(C, order_id) ==
    IF order_id \in DOMAIN C.active_stops
    THEN [C EXCEPT !.active_stops = [k \in DOMAIN @ \ {order_id} |-> @[k]]]
    ELSE [C EXCEPT !.active_stops = << >>]

remove_stop_loss(C, order_id) ==
    IF order_id \in DOMAIN C.active_stops
    THEN LET C1 == [C EXCEPT !.active_stops = [k \in DOMAIN @ \ {order_id} |-> @[k]]]
         IN IF DOMAIN C1.active_stops = {} /\ C1.monitoring
            THEN stop_monitoring(C1) ELSE C1
    ELSE C

\* Mutant: the stop comparison is strict.
StopTriggered_Strict(stop_loss, close_price) ==
    IF stop_loss.is_long
    THEN close_price < stop_loss.stop_price
    ELSE close_price > stop_loss.stop_price

\* check_stop_loss_conditions: the stop condition on a completed candle's close.
StopTriggered(stop_loss, close_price) ==
    IF stop_loss.is_long
    THEN close_price <= stop_loss.stop_price
    ELSE close_price >= stop_loss.stop_price

\* Mutant: no candle counts as checked.
AlreadyChecked_Never(stop_loss, candle_time) == FALSE

\* check_stop_loss_conditions: a candle already checked is skipped.
AlreadyChecked(stop_loss, candle_time) ==
    stop_loss.last_checked_candle # None /\ candle_time <= stop_loss.last_checked_candle

\* ======================================================== pending-order monitor
PendingId(symbol, timeframe, alert_type, epoch) ==
    [symbol |-> symbol, timeframe |-> timeframe, alert_type |-> alert_type, epoch |-> epoch]

\* handle_entry_alert: the levels of a pending trade from its reference candle.
MidPrice(candle) == (candle.high + candle.low) \div 2
NegationPrice(is_long, candle) == IF is_long THEN candle.low ELSE candle.high
\* candle["low"] * 0.8 / candle["high"] * 1.2
AbsStopLossPrice(is_long, candle) ==
    IF is_long THEN (candle.low * 8) \div 10 ELSE (candle.high * 12) \div 10

PendingTrade(id, symbol, timeframe, is_long, amount_usd, candle, sn) ==
    [ id |-> id, symbol |-> symbol, timeframe |-> timeframe, is_long |-> is_long,
      mid_price |-> get_correct_price(get_asset_name(symbol), MidPrice(candle)),
      negation_price |-> get_correct_price(get_asset_name(symbol),
                                           NegationPrice(is_long, candle)),
      amount_usd |-> amount_usd,
      reference_candle |-> candle,
      abs_stop_loss_price |-> AbsStopLossPrice(is_long, candle),
      serial |-> sn ]

\* Mutant: the negation comparison is strict.
NegationTriggered_Strict(pending_trade, last_candle_closing_price) ==
    IF pending_trade.is_long
    THEN last_candle_closing_price < pending_trade.negation_price
    ELSE last_candle_closing_price > pending_trade.negation_price

\* _monitor_prices: negation against the last completed candle's close.
NegationTriggered(pending_trade, last_candle_closing_price) ==
    IF pending_trade.is_long
    THEN last_candle_closing_price <= pending_trade.negation_price
    ELSE last_candle_closing_price >= pending_trade.negation_price

\* Mutant: the entry comparison is strict.
EntryTriggered_Strict(pending_trade, current_price) ==
    IF pending_trade.is_long
    THEN current_price < pending_trade.mid_price
    ELSE current_price > pending_trade.mid_price

\* _monitor_prices: entry against the current (corrected) price.
EntryTriggered(pending_trade, current_price) ==
    IF pending_trade.is_long
    THEN current_price <= pending_trade.mid_price
    ELSE current_price >= pending_trade.mid_price

HalfOf(qty) == qty \div 2

\* Mutant: TP1 closes half whatever the remainder is worth.
calculate_optimal_tp1_close_amount_AlwaysHalf(original_qty, current_price, min_usd) ==
    <<HalfOf(original_qty), FALSE>>

\* calculate_optimal_tp1_close_amount: <<close_amount, skip_tp2>>.
calculate_optimal_tp1_close_amount(original_qty, current_price, min_usd) ==
    LET remaining_after_50pct == HalfOf(original_qty) * current_price  \* half USD
    IN IF remaining_after_50pct < 2 * min_usd
       THEN <<original_qty, TRUE>>
       ELSE <<HalfOf(original_qty), FALSE>>

\* ==================================================================== state
Candle(n, shape) ==
    [timestamp |-> n * 3600 * MsPerSecond,
     high |-> shape.high, low |-> shape.low, close |-> shape.close]

EmptyMap == << >>

MonIdle ==
    [pc |-> "idle", to_scan |-> {}, trades_to_remove |-> {}, trades_to_execute |-> {},
     raised |-> FALSE, starters |-> 0, loops |-> 0]
CsOff ==
    [pc |-> "off", to_visit |-> {}, size |-> 0, stops_to_remove |-> {}, raised |-> FALSE,
     old |-> 0, old_stopping |-> 0]
NoObs ==
    [who |-> "none", ref |-> 0, candle_ok |-> FALSE, candle_time |-> 0, close |-> 0,
     price |-> None, again |-> FALSE, error |-> FALSE, args |-> << >>]

\* The state after ServiceContainer has built the services (main.py): an empty
\* ledger (no trades.json yet), empty registries, no monitor thread running.
\* A run follows one symbol: the exchange data of the others never matters to it.
Init ==
    /\ trades = << >>
    /\ json_file = NoFile
    /\ backup_file = NoFile
    /\ pending_trades = EmptyMap
    /\ pending_trades_lock = "free"
    /\ monitoring_active = FALSE
    /\ mon = MonIdle
    /\ exec_threads = {}
    /\ active_stops = EmptyMap
    /\ monitoring = FALSE
    /\ cs = CsOff
    /\ \E symbol \in Symbols :
          market \in [{symbol} \X Timeframes -> {Candle(0, sh) : sh \in CandleShapes}]
    /\ next_oid = 1
    /\ market_orders = {}
    /\ sl_orders = {}
    /\ serial = 0
    /\ hist = [cancelled |-> {}, late |-> {}, executed |-> {}, negated |-> {},
               seen |-> {}]
    /\ obs = NoObs

\* ------------------------------------------------------------- environment
\* A candle completes on the exchange.
NewCandle ==
    \E key \in DOMAIN market :
      \E sh \in ShapesAfter(market[key]) :
        LET n == CandleTime(market[key]) \div 3600 IN
        /\ n < MaxTs
        /\ market' = [market EXCEPT ![key] = Candle(n + 1, sh)]
        /\ obs' = NoObs
        /\ UNCHANGED << ledgerVars, tvVars, candleVars, next_oid,
                        market_orders, sl_orders, serial, hist >>

\* ------------------------------------------------------- handle_entry_alert
MapPut(m, k, v) == [x \in DOMAIN m \cup {k} |-> IF x = k THEN v ELSE m[x]]
MapDel(m, ks) == [x \in DOMAIN m \ ks |-> m[x]]

\* int(datetime.now().timestamp()) at the n-th accepted entry alert: entry alerts
\* arrive in distinct seconds.
Epoch(n) == n + 1

\* Mutant: the cap lets one trade more in.
EntryRejected_OneMore(t, candle_ok) ==
    \/ Cardinality(get_active_trades(t)) > MaxActiveTrades
    \/ ~candle_ok

\* handle_entry_alert: the two returns with "success": False.
EntryRejected(t, candle_ok) ==
    \/ Cardinality(get_active_trades(t)) >= MaxActiveTrades
    \/ ~candle_ok

handle_entry_alert(alert_type, symbol, timeframe, amount_usd, candle_ok) ==
    LET is_long == alert_type = "enter_long"
        candle_data == CandleOf(market, symbol, timeframe)
        trade_id == PendingId(symbol, timeframe, alert_type, Epoch(serial))
        pending_trade == PendingTrade(trade_id, symbol, timeframe, is_long,
                                      amount_usd, candle_data, serial + 1)
        rejected == EntryRejected(trades, candle_ok)
    IN /\ pending_trades_lock = "free"
       /\ IF rejected
          THEN UNCHANGED << pending_trades, mon, serial >>
          ELSE /\ pending_trades' = MapPut(pending_trades, trade_id, pending_trade)
               /\ mon' = IF monitoring_active THEN mon
                         ELSE [mon EXCEPT !.starters = @ + 1]
               /\ serial' = serial + 1
       /\ obs' = [NoObs EXCEPT !.who = "entry", !.candle_ok = candle_ok,
                               !.error = rejected]
       /\ UNCHANGED << ledgerVars, pending_trades_lock, monitoring_active, exec_threads,
                       candleVars, exchangeVars, hist >>

\* start_monitoring of the pending monitor, after its test: a request thread
\* that has found monitoring_active off sets it and starts a loop thread.
EntryStart ==
    /\ mon.starters > 0
    /\ monitoring_active' = TRUE
    /\ mon' = [mon EXCEPT !.starters = @ - 1, !.loops = @ + 1]
    /\ obs' = NoObs
    /\ UNCHANGED << ledgerVars, pending_trades, pending_trades_lock, exec_threads,
                    candleVars, exchangeVars, serial, hist >>

\* Entry alerts arrive, max of them in a run.
EntryAlertUpTo(max) ==
    \E alert_type \in {"enter_long", "enter_short"}, symbol \in Listed(market),
       timeframe \in Timeframes, amount_usd \in AmountsUsd, candle_ok \in BOOLEAN :
        /\ serial < max
        /\ handle_entry_alert(alert_type, symbol, timeframe, amount_usd, candle_ok)

EntryAlert == EntryAlertUpTo(MaxEntries)

\* ---------------------------------------------------------- _monitor_prices
\* while self.monitoring_active: with self.pending_trades_lock: ...
MonitorBegin ==
    /\ monitoring_active
    /\ mon.pc = "idle"
    /\ pending_trades_lock = "free"
    /\ DOMAIN pending_trades # {}
    /\ pending_trades_lock' = "monitor"
    /\ mon' = [mon EXCEPT !.pc = "scan", !.to_scan = DOMAIN pending_trades,
                          !.trades_to_remove = {}, !.trades_to_execute = {},
                          !.raised = FALSE]
    /\ obs' = NoObs
    /\ UNCHANGED << ledgerVars, pending_trades, monitoring_active, exec_threads,
                    candleVars, exchangeVars, serial, hist >>

\* Mutant: the entry check comes before the negation check.
MonitorDecision_EntryFirst(pending_trade, candle_ok, candle_data, price) ==
    LET current_price == get_correct_price(get_asset_name(pending_trade.symbol), price)
    IN IF ~candle_ok THEN "skip"
       ELSE IF price = None THEN "skip"
       ELSE IF EntryTriggered(pending_trade, current_price) THEN "entry"
       ELSE IF NegationTriggered(pending_trade, candle_data.close) THEN "negated"
       ELSE "keep"

\* Mutant: a pending trade whose price cannot be fetched is removed.
MonitorDecision_DropOnNoPrice(pending_trade, candle_ok, candle_data, price) ==
    LET current_price == get_correct_price(get_asset_name(pending_trade.symbol), price)
    IN IF ~candle_ok THEN "skip"
       ELSE IF price = None THEN "negated"
       ELSE IF NegationTriggered(pending_trade, candle_data.close) THEN "negated"
       ELSE IF EntryTriggered(pending_trade, current_price) THEN "entry"
       ELSE "keep"

\* What one pass of the for loop decides for one pending trade.  After the
\* last pass the with block ends: the lock is released before the removals.
MonitorDecision(pending_trade, candle_ok, candle_data, price) ==
    LET current_price == get_correct_price(get_asset_name(pending_trade.symbol), price)
    IN IF ~candle_ok THEN "skip"
       ELSE IF price = None THEN "skip"
       ELSE IF NegationTriggered(pending_trade, candle_data.close) THEN "negated"
       ELSE IF EntryTriggered(pending_trade, current_price) THEN "entry"
       ELSE "keep"

\* raises: the pass raised an exception, which the except of the pass logs.  The
\* monitor notes in mon.raised that a pass of the tick has raised.
MonitorCheck ==
    \E trade_id \in mon.to_scan, candle_ok \in BOOLEAN, raises \in BOOLEAN :
      \E price \in Quotes(CandleOf(market, pending_trades[trade_id].symbol,
                                   pending_trades[trade_id].timeframe)) \cup {None} :
        LET pending_trade == pending_trades[trade_id]
            candle_data == CandleOf(market, pending_trade.symbol, pending_trade.timeframe)
            d == IF raises THEN "skip"
                 ELSE MonitorDecision(pending_trade, candle_ok, candle_data, price)
        IN /\ mon.pc = "scan"
           /\ raises => ~candle_ok /\ price = None
           /\ mon' = [mon EXCEPT
                        !.pc = IF mon.to_scan = {trade_id} THEN "remove" ELSE @,
                        !.to_scan = @ \ {trade_id},
                        !.trades_to_remove =
                            IF d \in {"negated", "entry"} THEN @ \cup {trade_id} ELSE @,
                        !.trades_to_execute =
                            IF d = "entry" THEN @ \cup {pending_trade} ELSE @,
                        !.raised = @ \/ raises]
           /\ obs' = [who |-> "pending", ref |-> pending_trade.serial,
                      candle_ok |-> candle_ok,
                      candle_time |-> CandleTime(candle_data),
                      close |-> candle_data.close, price |-> price, again |-> FALSE,
                      error |-> raises, args |-> << >>]
           /\ pending_trades_lock' =
                 IF mon.to_scan = {trade_id} THEN "free" ELSE pending_trades_lock
           /\ UNCHANGED << ledgerVars, pending_trades, monitoring_active,
                           exec_threads, candleVars, exchangeVars, serial, hist >>

\* Mutant: a thread is started for every removed trade, not only the triggered ones.
ThreadsToStart_AllRemoved(m, pt) ==
    m.trades_to_execute \cup { pt[i] : i \in m.trades_to_remove \cap DOMAIN pt }

\* for pending_trade in trades_to_execute: threading.Thread(...).start()
ThreadsToStart(m, pt) == m.trades_to_execute

\* The serials of the pending trades the scan has copied out for execution.
CopiedOut(m) == { pt.serial : pt \in m.trades_to_execute }

\* for trade_id in trades_to_remove: pop(trade_id, None); then one thread per
\* triggered trade; then sleep.  The history notes as negated the trades this
\* removal takes out of the registry without their having been copied out.
MonitorFinish ==
    LET popped == mon.trades_to_remove \cap DOMAIN pending_trades
        executing == ThreadsToStart(mon, pending_trades)
        negated_now == { pending_trades[i].serial : i \in popped } \ CopiedOut(mon)
    IN /\ mon.pc = "remove"
       /\ pending_trades' = MapDel(pending_trades, mon.trades_to_remove)
       /\ exec_threads' = exec_threads \cup
             { [p |-> pt, pc |-> "start", oid |-> None, amount |-> 0] : pt \in executing }
       /\ mon' = [MonIdle EXCEPT !.starters = mon.starters, !.loops = mon.loops]
       /\ hist' = [hist EXCEPT !.executed = @ \cup { pt.serial : pt \in executing },
                               !.negated = @ \cup negated_now]
       /\ obs' = NoObs
       /\ UNCHANGED << ledgerVars, pending_trades_lock, monitoring_active,
                       candleVars, exchangeVars, serial >>

\* --------------------------------------------------- _execute_pending_trade
Manager(stops, mflag) == [active_stops |-> stops, monitoring |-> mflag, started |-> 0]

\* The loop thread the model follows is at pc; the older loop threads stay.
CsThread(pc) == [CsOff EXCEPT !.pc = pc, !.old = cs.old, !.old_stopping = cs.old_stopping]

\* A monitor thread created by start_monitoring begins at its while test.  A
\* loop thread that is alive at that moment (stop_monitoring waits for it for
\* 5 seconds only, its sleep lasts check_interval = 10) stays alive next to the
\* new one: the model follows the new thread and counts the older ones, those
\* between the test of the registry and the clearing of the flag apart.
CsAfter(C) ==
    IF C.started > 0
    THEN [CsOff EXCEPT !.pc = "idle",
                       !.old = cs.old + (IF cs.pc \in {"idle", "scan"} THEN 1 ELSE 0),
                       !.old_stopping =
                           cs.old_stopping + (IF cs.pc = "stopping" THEN 1 ELSE 0)]
    ELSE cs

\* round(amount_usd / current_price, szDecimal), szDecimals = 0, in half lots.
AssetAmount(amount_usd, current_price) == 2 * RoundHalfEven(amount_usd, current_price)

\* Mutant: a failed execution still records a trade.
ExecFail_AddsTrade(th) ==
    LET L == add_trade(Ledger(trades, json_file, backup_file),
                       th.p.symbol, th.p.timeframe, th.p.amount_usd, 0, 0,
                       IF th.p.is_long THEN "long" ELSE "short",
                       th.p.abs_stop_loss_price, StrOrderId(None), 0)
    IN /\ exec_threads' = exec_threads \ {th}
       /\ trades' = L.trades
       /\ json_file' = L.json_file
       /\ backup_file' = L.backup_file
       /\ UNCHANGED << market_orders, next_oid >>

\* The returns before the ledger is touched (no stop price, no amount, no
\* price, no asset info, market order failed): the thread ends.
ExecFail(th) ==
    /\ exec_threads' = exec_threads \ {th}
    /\ UNCHANGED << ledgerVars, market_orders, next_oid >>

\* Up to tracker.add_trade: price, asset info, market order, ledger entry.
ExecPlace ==
    \E th \in exec_threads, info_ok \in BOOLEAN, order_ok \in BOOLEAN :
      \E price \in Quotes(CandleOf(market, th.p.symbol, th.p.timeframe)) \cup {None} :
        LET pending_trade == th.p
            AssetName == get_asset_name(pending_trade.symbol)
            current_price == get_correct_price(AssetName, price)
            assetAmount == AssetAmount(pending_trade.amount_usd, current_price)
            filled == /\ pending_trade.abs_stop_loss_price # 0
                      /\ pending_trade.amount_usd # 0
                      /\ price # None
                      /\ info_ok
                      /\ order_ok
                      /\ assetAmount > 0
            L == add_trade(Ledger(trades, json_file, backup_file),
                           pending_trade.symbol, pending_trade.timeframe,
                           pending_trade.amount_usd, assetAmount, current_price,
                           IF pending_trade.is_long THEN "long" ELSE "short",
                           pending_trade.abs_stop_loss_price,
                           StrOrderId(next_oid), assetAmount)
        IN /\ th.pc = "start"
           /\ IF filled
              THEN /\ market_orders' = market_orders \cup
                        {MarketOrder(next_oid, pending_trade.symbol,
                                     pending_trade.is_long, assetAmount, "entry",
                                     pending_trade.serial)}
                   /\ next_oid' = next_oid + 1
                   /\ trades' = L.trades
                   /\ json_file' = L.json_file
                   /\ backup_file' = L.backup_file
                   /\ exec_threads' = (exec_threads \ {th}) \cup
                        {[th EXCEPT !.pc = "placed", !.oid = next_oid,
                                    !.amount = assetAmount]}
              ELSE ExecFail(th)
           /\ obs' = NoObs
           /\ UNCHANGED << pending_trades, pending_trades_lock, monitoring_active,
                           mon, candleVars, market, sl_orders, serial, hist >>

\* set_sl: a reduce-only stop-market order of the given size at slPrice.  The
\* request is noted with what the exchange answered (resting or an error); ref
\* is the pending trade it was made for.
SlOrder(AssetName, slPrice, assetAmount, is_buy, resting, ref) ==
    [asset |-> AssetName, triggerPx |-> slPrice, sz |-> assetAmount,
     is_buy |-> is_buy, resting |-> resting, ref |-> ref]

set_sl(orders, AssetName, slPrice, assetAmount, is_buy, resting, ref) ==
    orders \cup {SlOrder(AssetName, slPrice, assetAmount, is_buy, resting, ref)}

\* After add_trade: the candle-close watch, then the exchange-side stop (set_sl).
ExecProtect ==
    \E th \in exec_threads, sl_ok \in BOOLEAN :
        LET pending_trade == th.p
            C == add_candle_close_stop_loss(
                     Manager(active_stops, monitoring), StrRes(th.oid),
                     pending_trade.symbol, pending_trade.negation_price,
                     pending_trade.timeframe, pending_trade.is_long, th.amount)
        IN /\ th.pc = "placed"
           /\ active_stops' = C.active_stops
           /\ monitoring' = C.monitoring
           /\ cs' = CsAfter(C)
           /\ sl_orders' = set_sl(sl_orders, get_asset_name(pending_trade.symbol),
                                   pending_trade.abs_stop_loss_price, th.amount,
                                   ~pending_trade.is_long, sl_ok, pending_trade.serial)
           /\ exec_threads' = exec_threads \ {th}
           /\ obs' = NoObs
           /\ UNCHANGED << ledgerVars, pending_trades, pending_trades_lock,
                           monitoring_active, mon, market, next_oid, market_orders,
                           serial, hist >>

\* ------------------------------------------------------------ _monitor_loop
\* while self.monitoring: if self.active_stops: check_stop_loss_conditions()
CsBegin ==
    /\ cs.pc = "idle"
    /\ monitoring
    /\ DOMAIN active_stops # {}
    /\ cs' = [pc |-> "scan", to_visit |-> DOMAIN active_stops,
              size |-> Cardinality(DOMAIN active_stops), stops_to_remove |-> {},
              raised |-> FALSE, old |-> cs.old, old_stopping |-> cs.old_stopping]
    /\ obs' = NoObs
    /\ UNCHANGED << ledgerVars, tvVars, active_stops, monitoring, exchangeVars, serial, hist >>

\* if self.active_stops: ... else:  (the test finds the registry empty)
CsEmpty ==
    /\ cs.pc = "idle"
    /\ monitoring
    /\ DOMAIN active_stops = {}
    /\ cs' = [cs EXCEPT !.pc = "stopping"]
    /\ obs' = NoObs
    /\ UNCHANGED << ledgerVars, tvVars, active_stops, monitoring, exchangeVars,
                    serial, hist >>

\* The thread ends: self.monitoring = False; break after the test above, or
\* the while test finds the flag off (stop_monitoring has cleared it).
CsStop ==
    /\ \/ cs.pc = "stopping"
       \/ cs.pc = "idle" /\ ~monitoring
    /\ monitoring' = FALSE
    /\ cs' = CsThread("off")
    /\ obs' = NoObs
    /\ UNCHANGED << ledgerVars, tvVars, active_stops, exchangeVars,
                    serial, hist >>

\* An older loop thread wakes from its sleep and comes to its while test: with
\* the flag off it ends; with the flag on and the registry empty it goes on to
\* clear the flag; with the flag on and watches registered it stays a loop.
CsOldTest ==
    /\ cs.old > 0
    /\ ~monitoring \/ DOMAIN active_stops = {}
    /\ cs' = [cs EXCEPT !.old = @ - 1,
                        !.old_stopping = IF monitoring THEN @ + 1 ELSE @]
    /\ obs' = NoObs
    /\ UNCHANGED << ledgerVars, tvVars, active_stops, monitoring, exchangeVars,
                    serial, hist >>

\* An older loop thread ends: self.monitoring = False; break.
CsOldStop ==
    /\ cs.old_stopping > 0
    /\ monitoring' = FALSE
    /\ cs' = [cs EXCEPT !.old_stopping = @ - 1]
    /\ obs' = NoObs
    /\ UNCHANGED << ledgerVars, tvVars, active_stops, exchangeVars, serial, hist >>

\* execute_stop_loss: the flattening order and the ledger update.  W is
\* [L, next_oid, market_orders].
execute_stop_loss(W, stop_loss, trigger_price, order_ok) ==
    IF ~order_ok THEN W
    ELSE LET trade == get_trade_by_hyperliquid_id(W.L.trades, stop_loss.order_id)
             placed == [W EXCEPT
                          !.market_orders = @ \cup
                              {MarketOrder(W.next_oid, stop_loss.asset, ~stop_loss.is_long,
                                           stop_loss.position_size, "candle_sl",
                                           stop_loss.order_id.n)},
                          !.next_oid = @ + 1]
         IN IF trade = None THEN placed
            ELSE [placed EXCEPT !.L = update_stop_loss_triggered(
                                          @, trade, "candle_close", trigger_price)]

\* The registry changed size during the for loop: the dict iterator raises
\* RuntimeError, the outer try catches it, the removal of the triggered stops is
\* skipped and the loop sleeps.
CsAbort ==
    /\ cs' = CsThread("idle")
    /\ obs' = NoObs
    /\ UNCHANGED << ledgerVars, tvVars, active_stops, monitoring, exchangeVars, serial, hist >>

SizeChanged == cs.size # Cardinality(DOMAIN active_stops)

\* One pass of the for loop of check_stop_loss_conditions.
\* raises: the pass raised an exception before it had read the candle, which
\* the except of the pass logs; cs.raised notes that a pass of the tick raised.
CsVisit ==
    \E order_id \in cs.to_visit, candle_ok \in BOOLEAN, order_ok \in BOOLEAN,
       raises \in BOOLEAN :
        LET present == order_id \in DOMAIN active_stops
            stop_loss == active_stops[order_id]
            candle_data == CandleOf(market, stop_loss.asset, stop_loss.timeframe)
            candle_time == CandleTime(candle_data)
            evaluated == present /\ candle_ok /\ ~AlreadyChecked(stop_loss, candle_time)
            stop_triggered == evaluated /\ StopTriggered(stop_loss, candle_data.close)
            W0 == [L |-> Ledger(trades, json_file, backup_file),
                   next_oid |-> next_oid, market_orders |-> market_orders]
            W == IF stop_triggered
                 THEN execute_stop_loss(W0, stop_loss, candle_data.close, order_ok)
                 ELSE W0
        IN /\ cs.pc = "scan"
           /\ raises => ~candle_ok /\ ~order_ok /\ ~SizeChanged
           /\ IF SizeChanged THEN CsAbort
              ELSE
              /\ active_stops' =
                    IF evaluated
                    THEN [active_stops EXCEPT ![order_id].last_checked_candle = candle_time]
                    ELSE active_stops
              /\ cs' = [cs EXCEPT !.to_visit = @ \ {order_id},
                                  !.stops_to_remove =
                                      IF stop_triggered THEN @ \cup {order_id} ELSE @,
                                  !.raised = @ \/ raises]
              /\ trades' = W.L.trades
              /\ json_file' = W.L.json_file
              /\ backup_file' = W.L.backup_file
              /\ next_oid' = W.next_oid
              /\ market_orders' = W.market_orders
              /\ obs' = [who |-> "candle", ref |-> order_id.n,
                         candle_ok |-> present /\ candle_ok,
                         candle_time |-> IF present THEN candle_time ELSE 0,
                         close |-> IF present THEN candle_data.close ELSE 0,
                         price |-> None,
                         again |-> present /\ candle_ok
                                   /\ <<order_id, candle_time>> \in hist.seen,
                         error |-> raises, args |-> << >>]
              /\ hist' = IF present /\ candle_ok
                         THEN [hist EXCEPT !.seen = @ \cup {<<order_id, candle_time>>}]
                         ELSE hist
              /\ UNCHANGED << tvVars, monitoring, market, sl_orders, serial >>

\* The for loop ended: remove the triggered stops, then sleep.
CsEnd ==
    /\ cs.pc = "scan"
    /\ cs.to_visit = {}
    /\ IF SizeChanged THEN CsAbort
       ELSE
       /\ active_stops' = MapDel(active_stops, cs.stops_to_remove)
       /\ cs' = CsThread("idle")
       /\ obs' = NoObs
       /\ UNCHANGED << ledgerVars, tvVars, monitoring, exchangeVars, serial,
                       hist >>

\* ---------------------------------------------------------- alert handlers
\* with self.pending_trades_lock: drop every pending trade of symbol/timeframe.
\* The history notes the cancelled trades, and as late those the monitor's scan
\* had already copied out for execution.
\* Mutant: every pending trade matches.
MatchingPending_All(pt, symbol, timeframe) == DOMAIN pt

MatchingPending(pt, symbol, timeframe) ==
    { i \in DOMAIN pt : pt[i].symbol = symbol /\ pt[i].timeframe = timeframe }

CancelPending(symbol, timeframe) ==
    LET trades_to_remove == MatchingPending(pending_trades, symbol, timeframe)
    IN /\ pending_trades_lock = "free"
       /\ pending_trades' = MapDel(pending_trades, trades_to_remove)
       /\ hist' = [hist EXCEPT
                      !.cancelled = @ \cup { pending_trades[i].serial : i \in trades_to_remove },
                      !.late = @ \cup ({ pending_trades[i].serial : i \in trades_to_remove }
                                          \cap CopiedOut(mon))]

\* A world value W is [L, C, next_oid, market_orders]: the ledger, the candle
\* manager and the exchange, as the handlers' loops thread them along.
World ==
    [L |-> Ledger(trades, json_file, backup_file),
     C |-> Manager(active_stops, monitoring),
     next_oid |-> next_oid, market_orders |-> market_orders]

SetWorld(W) ==
    /\ trades' = W.L.trades
    /\ json_file' = W.L.json_file
    /\ backup_file' = W.L.backup_file
    /\ active_stops' = W.C.active_stops
    /\ monitoring' = W.C.monitoring
    /\ cs' = CsAfter(W.C)
    /\ next_oid' = W.next_oid
    /\ market_orders' = W.market_orders

PlaceOrder(W, symbol, is_buy, amount, by, ref) ==
    [W EXCEPT !.market_orders = @ \cup
                  {MarketOrder(W.next_oid, symbol, is_buy, amount, by, ref)},
              !.next_oid = @ + 1]

\* if order_id in self.candle_sl_manager.active_stops: remove_stop_loss(order_id)
RemoveWatchOf(W, order_id) ==
    IF order_id \in DOMAIN W.C.active_stops
    THEN [W EXCEPT !.C = remove_stop_loss(@, order_id)]
    ELSE W

\* The relevant trades of a TP alert: status active for TP1, tp1_achieved for TP2.
RelevantTrades(t, alert_type, symbol, timeframe) ==
    { u \in get_trades_by_symbol_timeframe(t, symbol, timeframe) :
        t[u].status = IF alert_type \in {"tp1_long", "tp1_short"}
                      THEN "active" ELSE "tp1_achieved" }

\* TP1 for one trade; out is what the exchange answers: [price, ok].
Tp1One(W, u, symbol, out) ==
    LET trade == W.L.trades[u]
        current_price == get_correct_price(get_asset_name(symbol), out.price)
        ca == calculate_optimal_tp1_close_amount(trade.original_qty_asset,
                                                 current_price, MinUsd)
        is_buy == trade.side = "short"
        W1 == PlaceOrder(W, symbol, is_buy, ca[1], "tp1", u)
    IN IF out.price = None \/ ~out.ok \/ ca[1] <= 0 THEN W
       ELSE IF ca[2]
       THEN RemoveWatchOf(
                [W1 EXCEPT !.L = update_trade_status(@, u, "fully_closed", current_price)],
                trade.hyperliquid_order_id)
       ELSE [W1 EXCEPT !.L = update_trade_tp1(@, u, current_price, ca[1])]

\* TP2 for one trade.
Tp2One(W, u, symbol, out) ==
    LET trade == W.L.trades[u]
        close_amount == HalfOf(trade.original_qty_asset)
        is_buy == trade.side = "short"
        current_price == get_correct_price(get_asset_name(symbol), out.price)
        W1 == PlaceOrder(W, symbol, is_buy, close_amount, "tp2", u)
    IN IF out.price = None \/ ~out.ok \/ close_amount <= 0 THEN W
       ELSE RemoveWatchOf(
                [W1 EXCEPT !.L = update_trade_tp2(@, u, current_price, close_amount)],
                trade.hyperliquid_order_id)

MinOf(S) == CHOOSE x \in S : \A y \in S : x <= y

\* for trade in relevant_trades: ... (in ledger order)
RECURSIVE TpLoop(_, _, _, _, _)
TpLoop(W, todo, alert_type, symbol, outs) ==
    IF todo = {} THEN W
    ELSE LET u == MinOf(todo)
             W1 == IF alert_type \in {"tp1_long", "tp1_short"}
                   THEN Tp1One(W, u, symbol, outs[u])
                   ELSE Tp2One(W, u, symbol, outs[u])
         IN TpLoop(W1, todo \ {u}, alert_type, symbol, outs)

ExchangeAnswers == [price : Prices \cup {None}, ok : BOOLEAN]

\* The tick has left its with block and its pops of the triggered and negated
\* pending trades (self.pending_trades.pop, done without the lock) are still to
\* come: they can fall into a handler's for loop over self.pending_trades.items().
MonitorPops == mon.pc = "remove" /\ mon.trades_to_remove \cap DOMAIN pending_trades # {}

\* The handler's for loop over the pending trades raised RuntimeError (dictionary
\* changed size during iteration): the handler's except returns an error, and
\* nothing was cancelled or closed.
AlertAborted(who, symbol, timeframe) ==
    /\ pending_trades_lock = "free"
    /\ obs' = [NoObs EXCEPT !.who = who, !.args = << symbol, timeframe >>,
                            !.error = TRUE]
    /\ UNCHANGED << ledgerVars, tvVars, candleVars, exchangeVars, serial, hist >>

\* iter_raises: a pop of the tick fell into the handler's for loop.
handle_tp_alert(alert_type, symbol, timeframe, outs, iter_raises) ==
    LET relevant_trades == RelevantTrades(trades, alert_type, symbol, timeframe)
    IN /\ iter_raises => MonitorPops
       /\ IF iter_raises THEN AlertAborted("tp_alert", symbol, timeframe)
          ELSE
          /\ CancelPending(symbol, timeframe)
          /\ SetWorld(TpLoop(World, relevant_trades, alert_type, symbol, outs))
          /\ obs' = [NoObs EXCEPT !.who = "tp_alert", !.args = << symbol, timeframe >>]
          /\ UNCHANGED << pending_trades_lock, monitoring_active, mon, exec_threads,
                          market, sl_orders, serial >>

TpAlert ==
    \E alert_type \in {"tp1_long", "tp1_short", "tp2_long", "tp2_short"},
       symbol \in Listed(market), timeframe \in Timeframes :
        \E outs \in [RelevantTrades(trades, alert_type, symbol, timeframe)
                        -> ExchangeAnswers], iter_raises \in BOOLEAN :
            handle_tp_alert(alert_type, symbol, timeframe, outs, iter_raises)

\* Two request threads of the web server handle a TP alert for the same symbol
\* and timeframe at the same time: each has cancelled the pending trades and
\* read its relevant trades before the other has processed one (the handler
\* holds no lock past the cancellation), then each runs its for loop over the
\* trades it has read.  outs_a and outs_b are the exchange's answers to each.
TpAlertConcurrent ==
    \E alert_type \in {"tp1_long", "tp1_short", "tp2_long", "tp2_short"},
       symbol \in Listed(market), timeframe \in Timeframes :
        LET relevant_trades == RelevantTrades(trades, alert_type, symbol, timeframe)
        IN \E outs_a \in [relevant_trades -> ExchangeAnswers],
              outs_b \in [relevant_trades -> ExchangeAnswers] :
            /\ CancelPending(symbol, timeframe)
            /\ SetWorld(TpLoop(TpLoop(World, relevant_trades, alert_type, symbol, outs_a),
                               relevant_trades, alert_type, symbol, outs_b))
            /\ obs' = [NoObs EXCEPT !.who = "tp_alert", !.args = << symbol, timeframe >>]
            /\ UNCHANGED << pending_trades_lock, monitoring_active, mon, exec_threads,
                            market, sl_orders, serial >>

\* for trade in active_trades: remove its watch, set its status to negated.
RECURSIVE NegationLoop(_, _)
NegationLoop(W, todo) ==
    IF todo = {} THEN W
    ELSE LET u == MinOf(todo)
             W1 == RemoveWatchOf(W, W.L.trades[u].hyperliquid_order_id)
             W2 == [W1 EXCEPT !.L = update_trade_status(@, u, "negated", None)]
         IN NegationLoop(W2, todo \ {u})

\* close_raises: hl_service.close_position raised (the handler returns an error).
\* iter_raises: a pop of the tick fell into the handler's for loop.
handle_negation_alert(alert_type, symbol, timeframe, close_raises, iter_raises) ==
    LET active_trades == get_trades_by_symbol_timeframe(trades, symbol, timeframe)
    IN /\ iter_raises => MonitorPops /\ ~close_raises
       /\ IF iter_raises THEN AlertAborted("negation_alert", symbol, timeframe)
          ELSE
          /\ CancelPending(symbol, timeframe)
          /\ SetWorld(IF active_trades = {} \/ close_raises THEN World
                      ELSE NegationLoop(World, active_trades))
          /\ obs' = [NoObs EXCEPT !.who = "negation_alert",
                                  !.args = << symbol, timeframe >>,
                                  !.error = active_trades # {} /\ close_raises]
          /\ UNCHANGED << pending_trades_lock, monitoring_active, mon, exec_threads,
                          market, sl_orders, serial >>

NegationAlert ==
    \E alert_type \in {"negation_long", "negation_short"}, symbol \in Listed(market),
       timeframe \in Timeframes, close_raises \in BOOLEAN, iter_raises \in BOOLEAN :
        handle_negation_alert(alert_type, symbol, timeframe, close_raises, iter_raises)

\* ============================================================ specifications
Next ==
    \/ NewCandle
    \/ EntryAlert
    \/ EntryStart
    \/ MonitorBegin
    \/ MonitorCheck
    \/ MonitorFinish
    \/ ExecPlace
    \/ ExecProtect
    \/ CsBegin
    \/ CsEmpty
    \/ CsStop
    \/ CsVisit
    \/ CsEnd
    \/ TpAlert
    \/ NegationAlert

Spec == Init /\ [][Next]_vars

\* The stop monitor with several positions.  The runs start where one tick of
\* the pending-order monitor has just handed MaxOpen entries to execution: the
\* orders were registered on the candle the exchange still reports (which had
\* not negated them), the registry is empty again and the threads are about to
\* start.  No further alert arrives.
InitStops ==
    /\ trades = << >>
    /\ json_file = NoFile
    /\ backup_file = NoFile
    /\ pending_trades = EmptyMap
    /\ pending_trades_lock = "free"
    /\ monitoring_active = TRUE
    /\ mon = [MonIdle EXCEPT !.loops = 1]
    /\ active_stops = EmptyMap
    /\ monitoring = FALSE
    /\ cs = CsOff
    /\ next_oid = 1
    /\ market_orders = {}
    /\ sl_orders = {}
    /\ serial = MaxOpen
    /\ obs = NoObs
    /\ hist = [cancelled |-> {}, late |-> {}, executed |-> 1..MaxOpen, negated |-> {},
               seen |-> {}]
    /\ \E symbol \in Symbols, timeframe \in Timeframes, sh \in CandleShapes,
          amount_usd \in AmountsUsd, type \in [1..MaxOpen -> {"enter_long", "enter_short"}] :
          LET candle_data == Candle(0, sh)
              pt(i) == PendingTrade(PendingId(symbol, timeframe, type[i], Epoch(i - 1)),
                                    symbol, timeframe, type[i] = "enter_long",
                                    amount_usd, candle_data, i)
          IN /\ market = [key \in {<<symbol, timeframe>>} |-> candle_data]
             /\ \A i \in 1..MaxOpen : ~NegationTriggered(pt(i), candle_data.close)
             /\ exec_threads =
                   { [p |-> pt(i), pc |-> "start", oid |-> None, amount |-> 0] :
                       i \in 1..MaxOpen }

NextStops ==
    \/ NewCandle
    \/ ExecPlace
    \/ ExecProtect
    \/ CsBegin
    \/ CsEmpty
    \/ CsStop
    \/ CsVisit
    \/ CsEnd

SpecStops == InitStops /\ [][NextStops]_vars

\* The ledger alone: TradeTracker's mutators called in any order with any
\* arguments, as its callers (the services, the chat commands) may call them.
\* Quantities are in half lots.
Qtys == {2, 4, 6}
ExitPrices == {25}

SetLedger(L) ==
    /\ trades' = L.trades
    /\ json_file' = L.json_file
    /\ backup_file' = L.backup_file
    /\ UNCHANGED << tvVars, candleVars, exchangeVars, serial, hist >>

\* The history notes which mutator was called, and for which trade.
Called(op, u) == [NoObs EXCEPT !.who = op, !.ref = u]

TheLedger == Ledger(trades, json_file, backup_file)

\* execution_details of a trade has room for one more entry.
Room(u) == Len(trades[u].execution_details) < MaxDetails

LedgerAdd ==
    \E side \in Sides, qty_asset \in {4} :
        LET candle_data == CandleOf(market, "BTC", "1h")
            is_long == side = "long"
        IN /\ Len(trades) < MaxLedgerTrades
           /\ obs' = Called("add_trade", Len(trades) + 1)
           /\ SetLedger(add_trade(TheLedger, "BTC", "1h", 60, qty_asset,
                                  MidPrice(candle_data), side,
                                  AbsStopLossPrice(is_long, candle_data),
                                  StrOrderId(Len(trades) + 1), None))

LedgerStatus ==
    \E u \in DOMAIN trades, new_status \in valid_statuses,
       exit_price \in ExitPrices \cup {None} :
        /\ obs' = Called("update_trade_status", u)
        /\ SetLedger(update_trade_status(TheLedger, u, new_status, exit_price))

LedgerTp1 ==
    \E u \in DOMAIN trades, price \in ExitPrices, qty \in Qtys :
        /\ Room(u)
        /\ obs' = Called("update_trade_tp1", u)
        /\ SetLedger(update_trade_tp1(TheLedger, u, price, qty))

LedgerTp2 ==
    \E u \in DOMAIN trades, price \in ExitPrices, qty \in Qtys :
        /\ Room(u)
        /\ obs' = Called("update_trade_tp2", u)
        /\ SetLedger(update_trade_tp2(TheLedger, u, price, qty))

LedgerStopTriggered ==
    \E u \in DOMAIN trades, price \in ExitPrices :
        /\ obs' = Called("update_stop_loss_triggered", u)
        /\ SetLedger(update_stop_loss_triggered(TheLedger, u, "candle_close", price))

LedgerDeactivate ==
    \E u \in DOMAIN trades :
        /\ obs' = Called("deactivate_stop_losses", u)
        /\ SetLedger(deactivate_stop_losses(TheLedger, u))

LedgerCloseFully ==
    \E u \in DOMAIN trades, price \in ExitPrices, reason \in CloseReasons :
        /\ Room(u)
        /\ obs' = Called("close_trade_fully", u)
        /\ SetLedger(close_trade_fully(TheLedger, u, price, reason))

LedgerClosePartial ==
    \E u \in DOMAIN trades, price \in ExitPrices, qty \in Qtys :
        /\ Room(u)
        /\ obs' = Called("close_trade_partial", u)
        /\ SetLedger(close_trade_partial(TheLedger, u, price, qty))

NextLedger ==
    \/ LedgerAdd
    \/ LedgerStatus
    \/ LedgerTp1
    \/ LedgerTp2
    \/ LedgerStopTriggered
    \/ LedgerDeactivate
    \/ LedgerCloseFully
    \/ LedgerClosePartial

\* These runs start from the state after construction, on one market.
InitLedger ==
    /\ Init
    /\ market = [key \in {<<"BTC", "1h">>} |->
                    Candle(0, [high |-> 20, low |-> 10, close |-> 20])]

SpecLedger == InitLedger /\ [][NextLedger]_vars

\* The registry alone: add_candle_close_stop_loss and remove_stop_loss called
\* with any arguments while the monitor loop runs, on one market and one
\* completed candle.  serial counts
\* the calls of add_candle_close_stop_loss.
MaxAdds == 3
RegistryIds == {StrRes(1), StrRes(2)}
StopPrices == {0, 10, 20}
PositionSizes == {0, 4}

SetManager(C) ==
    /\ active_stops' = C.active_stops
    /\ monitoring' = C.monitoring
    /\ cs' = CsAfter(C)
    /\ UNCHANGED << ledgerVars, tvVars, exchangeVars, hist >>

RegistryAdd ==
    \E order_id \in RegistryIds \cup {StrEmpty}, asset \in {"BTC", ""},
       stop_price \in StopPrices, timeframe \in {"1h", ""}, is_long \in {TRUE},
       position_size \in PositionSizes, send_ok \in BOOLEAN :
        /\ serial < MaxAdds
        /\ serial' = serial + 1
        /\ obs' = [Called("add_candle_close_stop_loss", order_id.n) EXCEPT
                      !.error = ~add_candle_close_stop_loss_returns(
                                     order_id, asset, stop_price, timeframe,
                                     position_size, send_ok),
                      !.args = << order_id, asset, stop_price, timeframe, is_long,
                                  position_size >>]
        /\ SetManager(add_candle_close_stop_loss(
                          Manager(active_stops, monitoring), order_id, asset,
                          stop_price, timeframe, is_long, position_size))

RegistryRemove ==
    \E order_id \in RegistryIds :
        /\ obs' = [Called("remove_stop_loss", order_id.n) EXCEPT !.args = << order_id >>]
        /\ serial' = serial
        /\ SetManager(remove_stop_loss(Manager(active_stops, monitoring), order_id))

InitRegistry ==
    /\ Init
    /\ market = [key \in {<<"BTC", "1h">>} |->
                    Candle(0, [high |-> 20, low |-> 10, close |-> 20])]

NextRegistry ==
    \/ RegistryAdd
    \/ RegistryRemove
    \/ CsBegin
    \/ CsEmpty
    \/ CsStop
    \/ CsOldTest
    \/ CsOldStop
    \/ CsVisit
    \/ CsEnd

SpecRegistry == InitRegistry /\ [][NextRegistry]_vars

\* Entry alerts handled by concurrent request threads of the web server: up to
\* MaxRaceEntries alerts are accepted, the pending monitor ticks and hands over.
EntryAlertRace == EntryAlertUpTo(MaxRaceEntries)

InitStart ==
    /\ Init
    /\ market = [key \in {"BTC"} \X Timeframes |->
                    Candle(0, [high |-> 20, low |-> 10, close |-> 20])]

NextStart ==
    \/ EntryAlertRace
    \/ EntryStart
    \/ MonitorBegin
    \/ MonitorCheck
    \/ MonitorFinish

SpecStart == InitStart /\ [][NextStart]_vars

\* Two watches over their lifetime: both are registered on the candle the
\* exchange still reports, the loop of the first registration is running; from
\* then on watches are only removed, candles complete and the loop ticks.
InitRefire ==
    /\ trades = << >>
    /\ json_file = NoFile
    /\ backup_file = NoFile
    /\ pending_trades = EmptyMap
    /\ pending_trades_lock = "free"
    /\ monitoring_active = FALSE
    /\ mon = MonIdle
    /\ exec_threads = {}
    /\ next_oid = 1
    /\ market_orders = {}
    /\ sl_orders = {}
    /\ serial = 0
    /\ obs = NoObs
    /\ hist = [cancelled |-> {}, late |-> {}, executed |-> {}, negated |-> {},
               seen |-> {}]
    /\ market \in [{<<"BTC", "1h">>} -> {Candle(0, sh) : sh \in CandleShapes}]
    /\ \E stop_price \in [RegistryIds -> StopPrices \ {0}] :
          LET C1 == add_candle_close_stop_loss(Manager(EmptyMap, FALSE), StrRes(1),
                        "BTC", stop_price[StrRes(1)], "1h", TRUE, 4)
              C2 == add_candle_close_stop_loss(C1, StrRes(2),
                        "BTC", stop_price[StrRes(2)], "1h", TRUE, 4)
          IN /\ active_stops = C2.active_stops
             /\ monitoring = C2.monitoring
             /\ cs = [CsOff EXCEPT !.pc = "idle"]

NextRefire ==
    \/ RegistryRemove
    \/ NewCandle
    \/ CsBegin
    \/ CsEmpty
    \/ CsStop
    \/ CsVisit
    \/ CsEnd

SpecRefire == InitRefire /\ [][NextRefire]_vars

\* The same runs with a fair scheduler: the monitor thread, once created, keeps
\* being scheduled, and its time.sleep ends, so each of its steps that stays
\* possible is eventually taken.
FairSpecRegistry ==
    /\ SpecRegistry
    /\ WF_vars(CsBegin)
    /\ WF_vars(CsEmpty)
    /\ WF_vars(CsStop)
    /\ WF_vars(CsOldTest)
    /\ WF_vars(CsOldStop)
    /\ WF_vars(CsVisit)
    /\ WF_vars(CsEnd)

\* Cancellations.  The runs start where two entry alerts have been accepted, one
\* for each symbol: two pending orders wait, on the candles the exchange reports,
\* and the pending-order monitor runs.  TP and negation alerts arrive for either
\* symbol while the monitor ticks and triggered orders are executed, and
\* remove_stop_loss is called for any order id.
PendingPairs == << <<"BTC", "1h">>, <<"PEPE", "1h">> >>

InitCancel ==
    /\ trades = << >>
    /\ json_file = NoFile
    /\ backup_file = NoFile
    /\ pending_trades_lock = "free"
    /\ monitoring_active = TRUE
    /\ mon = [MonIdle EXCEPT !.loops = 1]
    /\ exec_threads = {}
    /\ active_stops = EmptyMap
    /\ monitoring = FALSE
    /\ cs = CsOff
    /\ next_oid = 1
    /\ market_orders = {}
    /\ sl_orders = {}
    /\ serial = Len(PendingPairs)
    /\ obs = NoObs
    /\ hist = [cancelled |-> {}, late |-> {}, executed |-> {}, negated |-> {},
               seen |-> {}]
    /\ market = [key \in {PendingPairs[i] : i \in DOMAIN PendingPairs} |->
                    Candle(0, [high |-> 20, low |-> 10, close |-> 20])]
    /\ \E type \in [DOMAIN PendingPairs -> {"enter_long", "enter_short"}],
          amount_usd \in AmountsUsd :
          LET pt(i) == PendingTrade(
                           PendingId(PendingPairs[i][1], PendingPairs[i][2], type[i],
                                     Epoch(i - 1)),
                           PendingPairs[i][1], PendingPairs[i][2],
                           type[i] = "enter_long", amount_usd,
                           CandleOf(market, PendingPairs[i][1], PendingPairs[i][2]), i)
          IN pending_trades = [id \in {pt(i).id : i \in DOMAIN PendingPairs} |->
                                  CHOOSE q \in {pt(i) : i \in DOMAIN PendingPairs} :
                                      q.id = id]

NextCancel ==
    \/ RegistryRemove
    \/ TpAlert
    \/ NegationAlert
    \/ MonitorBegin
    \/ MonitorCheck
    \/ MonitorFinish
    \/ ExecPlace
    \/ ExecProtect

SpecCancel == InitCancel /\ [][NextCancel]_vars

\* The trade cap.  The service starts with a trades.json that earlier runs have
\* written: TradeTracker.__init__ loads it, the registries are empty.  The file
\* holds MaxActiveTrades trades, of which at most MaxClosed are closed.
MaxClosed == 2

\* The fields load_from_json adds to a trade of an older format, with their
\* defaults (trade.get(key, default) reads another field of the same trade).
MigrationDefaults(trade) ==
    LET Get(key, default) == IF key \in DOMAIN trade THEN trade[key] ELSE default
    IN [ original_qty_asset |-> Get("qty_asset", 0),
         current_qty_asset |-> Get("qty_asset", 0),
         tp1_achieved |-> FALSE,
         tp2_achieved |-> FALSE,
         realized_pnl_usd |-> 0,
         execution_details |-> << >>,
         absolute_sl_price |-> Get("stop_loss_price", 0),
         absolute_sl_active |-> TRUE,
         absolute_sl_order_id |-> None,
         candle_close_sl_price |-> Get("stop_loss_price", 0),
         candle_close_sl_active |-> TRUE,
         candle_sl_timeframe |-> Get("timeframe", "1h"),
         sl_triggered_by |-> NoneStr,
         sl_trigger_price |-> None ]

\* The migration of one loaded trade: missing fields filled, "open" -> "active".
Migrate(trade) ==
    LET defaults == MigrationDefaults(trade)
    IN [ field \in DOMAIN trade \cup DOMAIN defaults |->
           IF field \notin DOMAIN trade THEN defaults[field]
           ELSE IF field = "status" /\ trade[field] = "open" THEN "active"
           ELSE trade[field] ]

\* load_from_json that reads the backup as it reads the primary file.
load_from_json_BackupFirst(L) ==
    IF L.backup_file.exists /\ L.backup_file.valid
    THEN [L EXCEPT !.trades = JsonLoad(L.backup_file.content)]
    ELSE [L EXCEPT !.trades = << >>]

\* load_from_json: the primary file, migrated and saved again; when it cannot
\* be read, the backup as it is; when there is neither, no trades.
load_from_json(L) ==
    IF L.json_file.exists
    THEN IF L.json_file.valid
         THEN LET loaded_trades == JsonLoad(L.json_file.content)
              IN save_to_json([L EXCEPT !.trades =
                                  [u \in DOMAIN loaded_trades |-> Migrate(loaded_trades[u])]])
         ELSE IF L.backup_file.exists
              THEN IF L.backup_file.valid
                   THEN [L EXCEPT !.trades = JsonLoad(L.backup_file.content)]
                   ELSE [L EXCEPT !.trades = << >>]
              ELSE [L EXCEPT !.trades = << >>]
    ELSE [L EXCEPT !.trades = << >>]

\* The ledger an earlier run leaves behind: one BTC 1h long per status, entered
\* at 10 for 60 USD, then taken to its status by TP1 and TP2 at 25.
RECURSIVE EarlierRun(_, _)
EarlierRun(L, statuses) ==
    IF statuses = << >> THEN L
    ELSE LET u == NewUuid(L)
             qty == AssetAmount(60, 10)
             L1 == add_trade(L, "BTC", "1h", 60, qty, 10, "long", 8, StrOrderId(u), qty)
             L2 == IF Head(statuses) = "active" THEN L1
                   ELSE update_trade_tp1(L1, u, 25, HalfOf(qty))
             L3 == IF Head(statuses) = "fully_closed"
                   THEN update_trade_tp2(L2, u, 25, HalfOf(qty))
                   ELSE L2
         IN EarlierRun(L3, Tail(statuses))

\* closed trades first, then those at tp1_achieved, then the active ones
StatusRow(closed, tp1) ==
    [i \in 1..MaxActiveTrades |->
        IF i <= closed THEN "fully_closed"
        ELSE IF i <= closed + tp1 THEN "tp1_achieved" ELSE "active"]

InitCap ==
    /\ pending_trades = EmptyMap
    /\ pending_trades_lock = "free"
    /\ monitoring_active = FALSE
    /\ mon = MonIdle
    /\ exec_threads = {}
    /\ active_stops = EmptyMap
    /\ monitoring = FALSE
    /\ cs = CsOff
    /\ market \in [{"BTC"} \X Timeframes -> {Candle(0, sh) : sh \in CandleShapes}]
    /\ next_oid = MaxActiveTrades + 1
    /\ market_orders = {}
    /\ sl_orders = {}
    /\ serial = 0
    /\ hist = [cancelled |-> {}, late |-> {}, executed |-> {}, negated |-> {},
               seen |-> {}]
    /\ obs = NoObs
    /\ \E closed \in 0..MaxClosed, tp1 \in 0..MaxActiveTrades :
          /\ closed + tp1 <= MaxActiveTrades
          /\ LET before == EarlierRun(Ledger(<< >>, NoFile, NoFile), StatusRow(closed, tp1))
                 L == load_from_json(Ledger(<< >>, before.json_file, before.backup_file))
             IN /\ trades = L.trades
                /\ json_file = L.json_file
                /\ backup_file = L.backup_file

NextCap ==
    \/ EntryAlert
    \/ EntryStart
    \/ MonitorBegin
    \/ MonitorCheck
    \/ MonitorFinish
    \/ ExecPlace
    \/ ExecProtect
    \/ NegationAlert

SpecCap == InitCap /\ [][NextCap]_vars

\* The same restart, followed by up to MaxRaceEntries entry alerts whose pending
\* orders the monitor hands to execution.
NextCapSeveral ==
    \/ EntryAlertRace
    \/ EntryStart
    \/ MonitorBegin
    \/ MonitorCheck
    \/ MonitorFinish
    \/ ExecPlace
    \/ ExecProtect

SpecCapSeveral == InitCap /\ [][NextCapSeveral]_vars

\* A restart with up to MaxTpTrades active trades in trades.json, followed by
\* TP alerts, which one request thread or two at a time handle.
InitTp ==
    /\ pending_trades = EmptyMap
    /\ pending_trades_lock = "free"
    /\ monitoring_active = FALSE
    /\ mon = MonIdle
    /\ exec_threads = {}
    /\ active_stops = EmptyMap
    /\ monitoring = FALSE
    /\ cs = CsOff
    /\ market \in [{"BTC"} \X Timeframes -> {Candle(0, sh) : sh \in CandleShapes}]
    /\ next_oid = MaxTpTrades + 1
    /\ market_orders = {}
    /\ sl_orders = {}
    /\ serial = 0
    /\ hist = [cancelled |-> {}, late |-> {}, executed |-> {}, negated |-> {},
               seen |-> {}]
    /\ obs = NoObs
    /\ \E n \in 1..MaxTpTrades :
          LET before == EarlierRun(Ledger(<< >>, NoFile, NoFile),
                                   [i \in 1..n |-> "active"])
              L == load_from_json(Ledger(<< >>, before.json_file, before.backup_file))
          IN /\ trades = L.trades
             /\ json_file = L.json_file
             /\ backup_file = L.backup_file

NextTp ==
    \/ TpAlert
    \/ TpAlertConcurrent

SpecTp == InitTp /\ [][NextTp]_vars

\* Restarts.  The service starts on whatever trades.json and trades.json.backup
\* the disk holds: none, one written by this version, or one written by an
\* older version (a trade without the later fields, its status "open").  While
\* it runs, a crash in the middle of a write leaves a file json.load cannot
\* read (save_to_json writes both files in place); then the service starts
\* again and TradeTracker.__init__ loads the ledger anew.
LegacyObject(obj) ==
    [field \in DOMAIN obj \ DOMAIN MigrationDefaults(obj) |->
        IF field = "status" THEN "open" ELSE obj[field]]

LegacyDoc(doc) == [u \in DOMAIN doc |-> LegacyObject(doc[u])]

\* what an earlier run left in trades.json, one trade at the given status
WrittenDoc(status) ==
    EarlierRun(Ledger(<< >>, NoFile, NoFile), << status >>).json_file.content

DisksAtStart(status) ==
    {NoFile, File(WrittenDoc(status)), File(LegacyDoc(WrittenDoc(status)))}

\* json.load of a file: the exception it raises, if any
json_load_error(file) == IF file.valid THEN NoneStr ELSE "JSONDecodeError"

\* exceptions that `except Exception` catches
PyExceptions == {"JSONDecodeError", "OSError", "AttributeError"}

\* The exception load_from_json lets through to its caller: the primary file is
\* read inside `try ... except Exception` (579, 623), the backup inside
\* `try ... except:` (628, 632), which catches everything.
load_from_json_raises(L) ==
    IF ~L.json_file.exists THEN NoneStr
    ELSE LET e == json_load_error(L.json_file)
         IN IF e = NoneStr THEN NoneStr
            ELSE IF e \notin PyExceptions THEN e
            ELSE NoneStr

InitRestart ==
    /\ pending_trades = EmptyMap
    /\ pending_trades_lock = "free"
    /\ monitoring_active = FALSE
    /\ mon = MonIdle
    /\ exec_threads = {}
    /\ active_stops = EmptyMap
    /\ monitoring = FALSE
    /\ cs = CsOff
    /\ market = [key \in {<<"BTC", "1h">>} |->
                    Candle(0, [high |-> 20, low |-> 10, close |-> 20])]
    /\ next_oid = 1
    /\ market_orders = {}
    /\ sl_orders = {}
    /\ serial = 0
    /\ hist = [cancelled |-> {}, late |-> {}, executed |-> {}, negated |-> {},
               seen |-> {}]
    /\ obs = NoObs
    /\ \E primary \in DisksAtStart("active"), backup \in DisksAtStart("tp1_achieved") :
          LET L == load_from_json(Ledger(<< >>, primary, backup))
          IN /\ trades = L.trades
             /\ json_file = L.json_file
             /\ backup_file = L.backup_file

\* TradeTracker.__init__ of the next run
LedgerRestart ==
    LET L == Ledger(<< >>, json_file, backup_file)
    IN /\ obs' = [Called("load_from_json", 0) EXCEPT
                     !.error = load_from_json_raises(L) # NoneStr]
       /\ SetLedger(load_from_json(L))

\* A crash while save_to_json writes the backup copy or the primary file.
DiskFault ==
    \E torn \in {"backup", "primary"} :
        /\ json_file.exists
        /\ torn = "backup" => backup_file.exists
        /\ backup_file' = IF torn = "backup" THEN [backup_file EXCEPT !.valid = FALSE]
                          ELSE backup_file
        /\ json_file' = IF torn = "primary" THEN [json_file EXCEPT !.valid = FALSE]
                        ELSE json_file
        /\ obs' = NoObs
        /\ UNCHANGED << trades, tvVars, candleVars, exchangeVars, serial, hist >>

NextRestart ==
    \/ LedgerAdd
    \/ LedgerStatus
    \/ LedgerRestart
    \/ DiskFault

SpecRestart == InitRestart /\ [][NextRestart]_vars

\* Where the process can die inside save_to_json: while the backup copy is
\* being written (open "w" has truncated it, 566-567), after the copy and
\* before the primary file is opened (567-570), and while the primary file is
\* being written (open "w" has truncated it, 570-571).
CrashPoints == {"backup", "between", "primary"}

\* The text of `content` cut short: json.load cannot read it.
TornFile(content) == [exists |-> TRUE, valid |-> FALSE, content |-> content]

\* save_to_json interrupted at `point`: the files it leaves behind.  The backup
\* copy is made only when the primary file exists (563), and it is a copy of
\* the bytes, readable or not.
save_to_json_crashed(L, point) ==
    LET copied == IF L.json_file.exists THEN L.json_file ELSE L.backup_file
    IN IF point = "backup"
       THEN [L EXCEPT !.backup_file = TornFile(L.json_file.content)]
       ELSE IF point = "between"
       THEN [L EXCEPT !.backup_file = copied]
       ELSE [L EXCEPT !.backup_file = copied,
                      !.json_file = TornFile(JsonDump(L.trades))]

\* The process is running (it has not died since it last loaded the ledger).
ProcessUp == obs.who # "crash"

\* A mutating operation whose save_to_json is interrupted: the trades in memory
\* are lost with the process, the files stay as the crash left them.
LedgerCrash ==
    \E point \in CrashPoints, op \in {"add_trade", "update_trade_status"},
       u \in DOMAIN trades :
        LET candle_data == CandleOf(market, "BTC", "1h")
            changed == IF op = "add_trade"
                       THEN add_trade(TheLedger, "BTC", "1h", 60, 4, MidPrice(candle_data),
                                      "long", AbsStopLossPrice(TRUE, candle_data),
                                      StrOrderId(Len(trades) + 1), None)
                       ELSE update_trade_status(TheLedger, u, "fully_closed", None)
            L == save_to_json_crashed(Ledger(changed.trades, json_file, backup_file), point)
        IN /\ ProcessUp
           /\ op = "add_trade" => Len(trades) < MaxLedgerTrades
           /\ point = "backup" => json_file.exists
           /\ obs' = Called("crash", 0)
           /\ SetLedger([L EXCEPT !.trades = << >>])

CrashAdd == ProcessUp /\ LedgerAdd

CrashStatus == ProcessUp /\ LedgerStatus

\* The service was started on the ledger of an earlier run, which had persisted
\* one active trade.
InitCrash ==
    /\ pending_trades = EmptyMap
    /\ pending_trades_lock = "free"
    /\ monitoring_active = FALSE
    /\ mon = MonIdle
    /\ exec_threads = {}
    /\ active_stops = EmptyMap
    /\ monitoring = FALSE
    /\ cs = CsOff
    /\ market = [key \in {<<"BTC", "1h">>} |->
                    Candle(0, [high |-> 20, low |-> 10, close |-> 20])]
    /\ next_oid = 1
    /\ market_orders = {}
    /\ sl_orders = {}
    /\ serial = 0
    /\ hist = [cancelled |-> {}, late |-> {}, executed |-> {}, negated |-> {},
               seen |-> {}]
    /\ obs = NoObs
    /\ LET before == EarlierRun(Ledger(<< >>, NoFile, NoFile), << "active" >>)
           L == load_from_json(Ledger(<< >>, before.json_file, before.backup_file))
       IN /\ trades = L.trades
          /\ json_file = L.json_file
          /\ backup_file = L.backup_file

NextCrash ==
    \/ CrashAdd
    \/ CrashStatus
    \/ LedgerCrash
    \/ LedgerRestart

SpecCrash == InitCrash /\ [][NextCrash]_vars

\* The entry scenario: the service starts on a BTC 1h market whose last completed
\* candle has high 110 and low 100 and closed at 105; entry alerts arrive, the
\* pending-order monitor ticks, triggered orders are executed, candles complete.
InitScenario ==
    /\ trades = << >>
    /\ json_file = NoFile
    /\ backup_file = NoFile
    /\ pending_trades = EmptyMap
    /\ pending_trades_lock = "free"
    /\ monitoring_active = FALSE
    /\ mon = MonIdle
    /\ exec_threads = {}
    /\ active_stops = EmptyMap
    /\ monitoring = FALSE
    /\ cs = CsOff
    /\ market = [key \in {<<"BTC", "1h">>} |->
                    Candle(0, [high |-> 110, low |-> 100, close |-> 105])]
    /\ next_oid = 1
    /\ market_orders = {}
    /\ sl_orders = {}
    /\ serial = 0
    /\ hist = [cancelled |-> {}, late |-> {}, executed |-> {}, negated |-> {},
               seen |-> {}]
    /\ obs = NoObs

NextScenario ==
    \/ NewCandle
    \/ EntryAlert
    \/ EntryStart
    \/ MonitorBegin
    \/ MonitorCheck
    \/ MonitorFinish
    \/ ExecPlace
    \/ ExecProtect

SpecScenario == InitScenario /\ [][NextScenario]_vars

\* =============================================================== properties
\* ---- C1
\* C1 as stated: every pending order meets at most one of: handed to execution,
\* negated by the tick, cancelled by an alert.
C1_AtMostOneOutcome ==
    /\ hist.executed \cap hist.negated = {}
    /\ hist.cancelled \cap hist.negated = {}
    /\ hist.cancelled \cap hist.executed = {}

\* C1 amended: execution and negation exclude each other, and so do
\* cancellation and negation; a cancelled order is handed to execution only
\* when the tick's scan had copied it out before the alert cancelled it (the
\* removal follows the scan outside the lock).
C1_OneOutcomeButLateCancel ==
    /\ hist.executed \cap hist.negated = {}
    /\ hist.cancelled \cap hist.negated = {}
    /\ hist.cancelled \cap hist.executed \subseteq hist.late

\* An alert cancels a copied-out order, the tick hands it to execution, and a
\* market order is placed for it.
C1_Witness ==
    \E s \in hist.late :
        /\ s \in hist.executed
        /\ \E o \in market_orders : o.by = "entry" /\ o.ref = s

\* ---- C2
\* C2: a pass of the candle-close tick over a watch that fetches a candle the
\* watch has fetched before (same timestamp) has no side effect: no market
\* order is placed, no ledger record and no file changes, the registry and the
\* list of stops to remove stay as they are.
C2_RepeatedCandleNoEffect ==
    [][ (obs'.who = "candle" /\ obs'.again) =>
            /\ market_orders' = market_orders
            /\ next_oid' = next_oid
            /\ ledgerVars' = ledgerVars
            /\ active_stops' = active_stops
            /\ cs'.stops_to_remove = cs.stops_to_remove ]_vars

\* A watch whose stop has fired on a candle (its flattening order is on the
\* exchange) is still registered and is passed over on the same candle.
C2_Witness ==
    /\ obs.who = "candle"
    /\ obs.again
    /\ StrRes(obs.ref) \in DOMAIN active_stops
    /\ StopTriggered(active_stops[StrRes(obs.ref)], obs.close)
    /\ \E o \in market_orders : o.by = "candle_sl" /\ o.ref = obs.ref

\* ---- C3
\* C3 as stated: no ledger mutation increases a trade's current_qty_asset or
\* leaves it negative.
C3_QtyNeverUpNeverNegative ==
    [][ \A u \in DOMAIN trades :
            /\ trades'[u].current_qty_asset <= trades[u].current_qty_asset
            /\ trades'[u].current_qty_asset >= 0 ]_vars

\* ---- C4
\* The terminal statuses of the trade state graph.
TerminalStatuses ==
    {"fully_closed", "stopped_out", "negated", "manual_close", "cancelled"}

\* C4 as stated: once a trade's status is terminal, no step changes its
\* status, its current_qty_asset or its realized_pnl_usd.
C4_TerminalImmutable ==
    [][ \A u \in DOMAIN trades :
            trades[u].status \in TerminalStatuses =>
                /\ trades'[u].status = trades[u].status
                /\ trades'[u].current_qty_asset = trades[u].current_qty_asset
                /\ trades'[u].realized_pnl_usd = trades[u].realized_pnl_usd ]_vars

\* ---- C5
\* The edges of the trade state graph.
StatusEdges ==
    ({"active"} \X {"tp1_achieved", "fully_closed", "stopped_out", "negated",
                    "manual_close", "cancelled"})
    \cup ({"tp1_achieved"} \X {"fully_closed", "stopped_out", "manual_close"})

\* C5 as stated: every status change of a trade is an edge of the state graph
\* (so no trade returns to active, and tp1_achieved is never set to negated).
C5_OnlyGraphEdges ==
    [][ \A u \in DOMAIN trades :
            trades'[u].status # trades[u].status =>
                <<trades[u].status, trades'[u].status>> \in StatusEdges ]_vars

\* ---- C6
\* C6 as stated: a trade whose status is terminal has current_qty_asset zero.
C6_TerminalMeansFlat ==
    \A u \in DOMAIN trades :
        trades[u].status \in TerminalStatuses => trades[u].current_qty_asset = 0

\* ---- C7, C8: what a pass of the pending-order tick has observed
\* The pass just made fetched the candle and the price for pending trade pt.
Fetched(pt) ==
    /\ obs'.who = "pending"
    /\ obs'.ref = pt.serial
    /\ obs'.candle_ok
    /\ obs'.price # None

\* The close as fetched is at or beyond the order's negation price.
NegationHolds(pt) ==
    \/ pt.is_long /\ obs'.close <= pt.negation_price
    \/ ~pt.is_long /\ obs'.close >= pt.negation_price

\* The current price is at or beyond the order's trigger price.
EntryHolds(pt) ==
    LET current_price == get_correct_price(get_asset_name(pt.symbol), obs'.price)
    IN \/ pt.is_long /\ current_price <= pt.mid_price
       \/ ~pt.is_long /\ current_price >= pt.mid_price

\* C7: a pass on which both the negation condition and the entry condition hold
\* marks the order for removal without handing it to execution; the removal
\* that ends the tick takes every marked order out of the registry and starts
\* threads for the handed-over orders only; no entry order is ever placed and
\* no ledger entry created for an order the tick negated.
C7_NegationBeforeEntry ==
    /\ [][ \A id \in DOMAIN pending_trades :
              LET pt == pending_trades[id]
              IN (Fetched(pt) /\ NegationHolds(pt) /\ EntryHolds(pt)) =>
                    /\ id \in mon'.trades_to_remove
                    /\ pt \notin mon'.trades_to_execute
                    /\ market_orders' = market_orders
                    /\ trades' = trades ]_vars
    /\ [][ (mon.pc = "remove" /\ mon'.pc = "idle") =>
              /\ DOMAIN pending_trades' \cap mon.trades_to_remove = {}
              /\ { th.p : th \in exec_threads' \ exec_threads } \subseteq mon.trades_to_execute
          ]_vars
    /\ [](\A s \in hist.negated :
              /\ s \notin hist.executed
              /\ \A o \in market_orders : ~(o.by = "entry" /\ o.ref = s)
              /\ Len(trades) = Cardinality({ o \in market_orders : o.by = "entry" }))

\* A pass has seen both conditions hold for a registered order and marked it.
C7_Witness ==
    /\ obs.who = "pending"
    /\ obs.candle_ok
    /\ obs.price # None
    /\ \E id \in DOMAIN pending_trades :
          LET pt == pending_trades[id]
              current_price == get_correct_price(get_asset_name(pt.symbol), obs.price)
          IN /\ pt.serial = obs.ref
             /\ id \in mon.trades_to_remove
             /\ IF pt.is_long
                THEN obs.close <= pt.negation_price /\ current_price <= pt.mid_price
                ELSE obs.close >= pt.negation_price /\ current_price >= pt.mid_price

\* C8: a pass that fetched candle and price and found the negation condition
\* not to hold hands the order to execution (and marks it for removal) if and
\* only if the entry condition holds; otherwise the order stays registered,
\* unchanged and unmarked.  The removal that ends the tick starts a thread for
\* every handed-over order and takes it out of the registry.
C8_EntryIffPriceAtTrigger ==
    /\ [][ \A id \in DOMAIN pending_trades :
              LET pt == pending_trades[id]
              IN (Fetched(pt) /\ ~NegationHolds(pt)) =>
                    /\ EntryHolds(pt) <=> pt \in mon'.trades_to_execute
                    /\ EntryHolds(pt) <=> id \in mon'.trades_to_remove
                    /\ id \in DOMAIN pending_trades'
                    /\ pending_trades'[id] = pt ]_vars
    /\ [][ (mon.pc = "remove" /\ mon'.pc = "idle") =>
              \A pt \in mon.trades_to_execute :
                  /\ pt.id \notin DOMAIN pending_trades'
                  /\ \E th \in exec_threads' : th.p = pt /\ th.pc = "start" ]_vars

\* A pass has handed an order to execution at a price equal to its trigger.
C8_Witness ==
    /\ obs.who = "pending"
    /\ obs.candle_ok
    /\ \E pt \in mon.trades_to_execute :
          /\ pt.serial = obs.ref
          /\ obs.price # None
          /\ get_correct_price(get_asset_name(pt.symbol), obs.price) = pt.mid_price

\* ---- C9
\* The watch that the pass just made has looked at, before and after the pass.
Visited(id) == obs'.who = "candle" /\ obs'.candle_ok /\ StrRes(obs'.ref) = id

Newer(w) == w.last_checked_candle = None \/ obs'.candle_time > w.last_checked_candle

StopHolds(w) ==
    \/ w.is_long /\ obs'.close <= w.stop_price
    \/ ~w.is_long /\ obs'.close >= w.stop_price

\* C9: a pass that fetches a candle newer than the watch's last_checked_candle
\* fires the stop (calls the flattening and lists the watch for removal) if and
\* only if the close is at or beyond the stop price; a watch that does not fire
\* stays registered with last_checked_candle set to the candle's time; a candle
\* that is not newer is not evaluated: nothing fires and nothing changes.
C9_StopIffCloseAtStop ==
    [][ \A id \in DOMAIN active_stops :
           LET w == active_stops[id]
               fired == id \in cs'.stops_to_remove \ cs.stops_to_remove
           IN Visited(id) =>
                 /\ Newer(w) => /\ fired <=> StopHolds(w)
                                /\ id \in DOMAIN active_stops'
                                /\ active_stops'[id].last_checked_candle = obs'.candle_time
                                /\ ~fired => /\ market_orders' = market_orders
                                             /\ trades' = trades
                 /\ ~Newer(w) => /\ ~fired
                                 /\ active_stops' = active_stops
                                 /\ market_orders' = market_orders
                                 /\ trades' = trades ]_vars

\* A watch that a first candle did not fire has fired on a newer candle.
C9_Witness ==
    /\ obs.who = "candle"
    /\ obs.candle_ok
    /\ obs.candle_time > 0
    /\ StrRes(obs.ref) \in cs.stops_to_remove
    /\ <<StrRes(obs.ref), 0>> \in hist.seen

\* ---- C10
\* C10 as stated: when the candle-close stop fires and its flattening order is
\* filled, the protected trade (the one whose entry order the watch is for) is
\* recorded as stopped_out with nothing left, stopped by candle_close, both
\* stop flags off, and the watch is listed for removal.
C10_CandleStopRecorded ==
    [][ \A o \in market_orders' \ market_orders :
            o.by = "candle_sl" =>
                /\ StrRes(o.ref) \in cs'.stops_to_remove
                /\ \E u \in DOMAIN trades' :
                      /\ trades'[u].hyperliquid_order_id.n = o.ref
                      /\ trades'[u].status = "stopped_out"
                      /\ trades'[u].current_qty_asset = 0
                      /\ trades'[u].sl_triggered_by = "candle_close"
                      /\ ~trades'[u].absolute_sl_active
                      /\ ~trades'[u].candle_close_sl_active ]_vars

\* ---- C11
\* No flattening order placed for the watch is on the exchange.
NoFlattenOrder(id) == \A o \in market_orders : ~(o.by = "candle_sl" /\ o.ref = id.n)

\* C11 as stated: a watch whose stop fired in the tick and whose flattening
\* order failed is still registered when the tick ends; and a stop is only ever
\* attempted on a candle the watch has not fetched before.
C11_FailedFlattenKeepsWatch ==
    /\ [][ (cs.pc = "scan" /\ cs'.pc = "idle") =>
              \A id \in cs.stops_to_remove :
                  NoFlattenOrder(id) => id \in DOMAIN active_stops' ]_vars
    /\ [][ \A id \in cs'.stops_to_remove \ cs.stops_to_remove :
              obs'.who = "candle" /\ StrRes(obs'.ref) = id /\ ~obs'.again ]_vars

\* ---- C12
\* The trades a watch protects: those whose entry order the watch was
\* registered for in the execution handoff.
ProtectedBy(id) == { u \in DOMAIN trades : trades[u].hyperliquid_order_id.n = id.n }

\* C12 as stated: no registered watch protects a trade whose status is terminal.
C12_NoWatchOnClosedTrade ==
    \A id \in DOMAIN active_stops :
        \A u \in ProtectedBy(id) : trades[u].status \notin TerminalStatuses

\* ---- C13
\* C13 as stated: the step that places a triggered order's market order adds
\* exactly one trade, active, with current and original quantity equal to the
\* filled amount and both stop flags on; the step that follows registers a
\* watch for it with the pending order's abs_stop_loss_price as stop price and
\* the order's direction, timeframe and the filled size.
C13_HandoffCreatesTradeAndWatch ==
    /\ [][ \A th \in exec_threads' \ exec_threads :
              th.pc = "placed" =>
                  /\ Len(trades') = Len(trades) + 1
                  /\ \A u \in DOMAIN trades : trades'[u] = trades[u]
                  /\ LET trade == trades'[Len(trades')]
                     IN /\ trade.status = "active"
                        /\ trade.current_qty_asset = th.amount
                        /\ trade.original_qty_asset = th.amount
                        /\ trade.absolute_sl_active
                        /\ trade.candle_close_sl_active
                        /\ \E o \in market_orders' \ market_orders :
                              /\ o.by = "entry"
                              /\ o.ref = th.p.serial
                              /\ o.asset_amount = th.amount ]_vars
    /\ [][ \A th \in exec_threads \ exec_threads' :
              th.pc = "placed" =>
                  /\ StrRes(th.oid) \in DOMAIN active_stops'
                  /\ LET w == active_stops'[StrRes(th.oid)]
                     IN /\ w.stop_price = th.p.abs_stop_loss_price
                        /\ w.is_long = th.p.is_long
                        /\ w.timeframe = th.p.timeframe
                        /\ w.position_size = th.amount ]_vars

\* ---- C14
\* C14 as stated: every registered watch is keyed by the hyperliquid_order_id
\* of the trade created in the same handoff: looking the trade up by the
\* watch's order_id finds a trade, and it is the trade of the watch's entry
\* order.
C14_WatchKeyIsTradeOrderId ==
    \A id \in DOMAIN active_stops :
        LET u == get_trade_by_hyperliquid_id(trades, active_stops[id].order_id)
        IN /\ u # None
           /\ trades[u].hyperliquid_order_id = id
           /\ \E o \in market_orders :
                 o.by = "entry" /\ StrOrderId(o.order_id) = trades[u].hyperliquid_order_id

\* ---- C15
\* The entry order the exchange filled for pending trade s, if any.
EntryOrders(s) == { o \in market_orders : o.by = "entry" /\ o.ref = s }

\* C15: when the execution of a triggered order ends without a filled market
\* order (no price, no asset info, order rejected), the step adds no trade,
\* registers no watch, requests no exchange-side stop and places no order, and
\* the order is not in the registry; and every trade, every watch and every
\* exchange-side stop request there ever is stems from a filled entry order, so
\* none exists for an order whose execution failed.
C15_FailedExecutionLeavesNothing ==
    /\ [][ \A th \in exec_threads \ exec_threads' :
              (th.pc = "start" /\ \A t2 \in exec_threads' : t2.p # th.p) =>
                  /\ trades' = trades
                  /\ active_stops' = active_stops
                  /\ sl_orders' = sl_orders
                  /\ market_orders' = market_orders
                  /\ \A id \in DOMAIN pending_trades' :
                        pending_trades'[id].serial # th.p.serial ]_vars
    /\ [](/\ \A u \in DOMAIN trades :
                \E o \in market_orders :
                    o.by = "entry" /\ StrOrderId(o.order_id) = trades[u].hyperliquid_order_id
          /\ \A id \in DOMAIN active_stops :
                \E o \in market_orders : o.by = "entry" /\ StrRes(o.order_id) = id
          /\ \A so \in sl_orders : EntryOrders(so.ref) # {})

\* The execution of a triggered order has failed: its thread is gone, no entry
\* order was filled for it, and there is no trade, watch or stop request.
C15_Witness ==
    \E s \in hist.executed :
        /\ \A th \in exec_threads : th.p.serial # s
        /\ EntryOrders(s) = {}
        /\ trades = << >>
        /\ active_stops = EmptyMap
        /\ sl_orders = {}
        /\ \A id \in DOMAIN pending_trades : pending_trades[id].serial # s

\* ---- C16
\* The trades that count against the cap.
Live == get_active_trades(trades)

\* C16: an entry alert that arrives when MaxActiveTrades trades are active or
\* tp1_achieved, or whose reference candle cannot be fetched, is answered with
\* an error and changes neither the pending registry, the ledger and its files,
\* nor the monitor (flag, thread, execution threads); any other entry alert is
\* accepted and registers its order.
C16_RejectedEntryChangesNothing ==
    [][ obs'.who = "entry" =>
           IF Cardinality(Live) >= MaxActiveTrades \/ ~obs'.candle_ok
           THEN /\ obs'.error
                /\ pending_trades' = pending_trades
                /\ ledgerVars' = ledgerVars
                /\ monitoring_active' = monitoring_active
                /\ mon' = mon
                /\ exec_threads' = exec_threads
                /\ serial' = serial
           ELSE /\ ~obs'.error
                /\ DOMAIN pending_trades' # DOMAIN pending_trades ]_vars

\* An entry alert has been refused at the cap although its candle was there.
C16_Witness ==
    /\ obs.who = "entry"
    /\ obs.error
    /\ obs.candle_ok
    /\ Cardinality(Live) = MaxActiveTrades
    /\ pending_trades = EmptyMap

\* ---- C17
\* C17: a pass of the pending-order tick whose candle or price fetch failed
\* leaves the order registered, unchanged and unmarked, hands nothing to
\* execution, places no order and adds no trade; a pass of the candle-close tick
\* whose candle fetch failed leaves the registry (last_checked_candle included)
\* and the list of stops to remove as they were, places no order and changes no
\* trade.  The removals that end a tick take out marked entries only, and the
\* next tick scans every entry that is registered then.
C17_FailedFetchSkipsEntry ==
    /\ [][ \A id \in DOMAIN pending_trades :
              LET pt == pending_trades[id]
              IN (/\ obs'.who = "pending"
                  /\ obs'.ref = pt.serial
                  /\ ~obs'.candle_ok \/ obs'.price = None) =>
                    /\ id \in DOMAIN pending_trades'
                    /\ pending_trades'[id] = pt
                    /\ mon'.trades_to_remove = mon.trades_to_remove
                    /\ mon'.trades_to_execute = mon.trades_to_execute
                    /\ market_orders' = market_orders
                    /\ ledgerVars' = ledgerVars ]_vars
    /\ [][ \A id \in DOMAIN active_stops :
              (obs'.who = "candle" /\ StrRes(obs'.ref) = id /\ ~obs'.candle_ok) =>
                    /\ active_stops' = active_stops
                    /\ cs'.stops_to_remove = cs.stops_to_remove
                    /\ market_orders' = market_orders
                    /\ ledgerVars' = ledgerVars ]_vars
    /\ [][ (mon.pc = "remove" /\ mon'.pc = "idle") =>
              DOMAIN pending_trades \ mon.trades_to_remove \subseteq DOMAIN pending_trades'
          ]_vars
    /\ [][ (cs.pc = "scan" /\ cs'.pc = "idle") =>
              DOMAIN active_stops \ cs.stops_to_remove \subseteq DOMAIN active_stops' ]_vars
    /\ [][ (mon.pc = "idle" /\ mon'.pc = "scan") =>
              mon'.to_scan = DOMAIN pending_trades ]_vars
    /\ [][ (cs.pc = "idle" /\ cs'.pc = "scan") =>
              cs'.to_visit = DOMAIN active_stops ]_vars

\* The price fetch failed on a pass whose candle had closed beyond the order's
\* negation price: the order is still registered and not marked for removal.
C17_Witness ==
    /\ obs.who = "pending"
    /\ obs.candle_ok
    /\ obs.price = None
    /\ \E id \in DOMAIN pending_trades :
          /\ pending_trades[id].serial = obs.ref
          /\ NegationTriggered(pending_trades[id], obs.close)
          /\ id \notin mon.trades_to_remove

\* ---- C18
\* The pending order of the entry scenario: a long with trigger 105, negation 100.
ScenarioOrder(pt) == pt.is_long /\ pt.mid_price = 105 /\ pt.negation_price = 100

C19_LevelsFromReferenceCandleFixed ==
    /\ [][ \A id \in DOMAIN pending_trades' \ DOMAIN pending_trades :
              LET pt == pending_trades'[id]
              IN pt.reference_candle = CandleOf(market, pt.symbol, pt.timeframe) ]_vars
    /\ [](\A id \in DOMAIN pending_trades :
              LET pt == pending_trades[id]
              IN /\ pt.mid_price = MidPrice(pt.reference_candle)
                 /\ pt.negation_price = NegationPrice(pt.is_long, pt.reference_candle))
    /\ [][ \A id \in DOMAIN pending_trades \cap DOMAIN pending_trades' :
              /\ pending_trades'[id].mid_price = pending_trades[id].mid_price
              /\ pending_trades'[id].negation_price = pending_trades[id].negation_price
          ]_vars

\* ---- C20
\* The TP1 close order filled for trade u in the step, if any.
Tp1Orders(u) == { o \in market_orders' \ market_orders : o.by = "tp1" /\ o.ref = u }

\* C20: when a TP1 alert's close order for an active trade is filled, then
\* either half the original quantity was ordered, the trade is tp1_achieved
\* with the other half remaining, and that half at the price of the alert is
\* worth at least MinUsd; or the whole original quantity was ordered, the trade
\* is fully_closed, and half of it at that price is worth less than MinUsd.
\* A trade that TP1 closed in full never gets a TP2 order.
C20_Tp1HalfOrAll ==
    /\ [][ \A u \in DOMAIN trades : \A o \in Tp1Orders(u) :
              LET before == trades[u]
                  after == trades'[u]
                  half == HalfOf(before.original_qty_asset)
              IN /\ before.status = "active"
                 /\ o.symbol = before.currency
                 /\ o.is_buy = (before.side = "short")
                 /\ \/ /\ half * after.tp1_price >= 2 * MinUsd
                       /\ o.asset_amount = half
                       /\ after.status = "tp1_achieved"
                       /\ after.tp1_qty_closed = half
                       /\ after.current_qty_asset = before.original_qty_asset - half
                    \/ /\ half * after.exit_price < 2 * MinUsd
                       /\ o.asset_amount = before.original_qty_asset
                       /\ after.status = "fully_closed"
                       /\ ~after.tp1_achieved ]_vars
    /\ [](\A o \in market_orders :
              (o.by = "tp1" /\ o.asset_amount = trades[o.ref].original_qty_asset) =>
                  \A o2 \in market_orders : ~(o2.by = "tp2" /\ o2.ref = o.ref))

\* A TP1 alert has closed a trade in full: the order is for the whole original
\* quantity, half of which is worth less than MinUsd at the alert's price, and
\* the trade is fully_closed without having been tp1_achieved.
C20_Witness ==
    \E o \in market_orders :
        /\ o.by = "tp1"
        /\ o.asset_amount = trades[o.ref].original_qty_asset
        /\ trades[o.ref].status = "fully_closed"
        /\ ~trades[o.ref].tp1_achieved
        /\ HalfOf(o.asset_amount) * trades[o.ref].exit_price < 2 * MinUsd

\* ---- C21
\* The signed price difference of a trade at an exit price.
SignedDiff(trade, exit_price) ==
    IF trade.side = "long" THEN exit_price - trade.entry_price
    ELSE trade.entry_price - exit_price

\* C21: update_trade_tp2 on an existing trade leaves current_qty_asset 0,
\* status fully_closed and closed_at set; tp2_qty_closed is the quantity that
\* remained before the call; exactly one execution detail, for that quantity,
\* is appended; realized_pnl_usd changes by that quantity's P&L at the TP2 price.
C21_Tp2ClosesRemainder ==
    [][ obs'.who = "update_trade_tp2" =>
           LET before == trades[obs'.ref]
               after == trades'[obs'.ref]
               remaining == before.current_qty_asset
           IN /\ after.current_qty_asset = 0
              /\ after.status = "fully_closed"
              /\ after.closed_at # NoneStr
              /\ after.tp2_achieved
              /\ after.tp2_qty_closed = remaining
              /\ Len(after.execution_details) = Len(before.execution_details) + 1
              /\ SubSeq(after.execution_details, 1, Len(before.execution_details))
                    = before.execution_details
              /\ after.execution_details[Len(after.execution_details)].qty = remaining
              /\ after.execution_details[Len(after.execution_details)].price = after.tp2_price
              /\ after.realized_pnl_usd =
                    before.realized_pnl_usd + SignedDiff(before, after.tp2_price) * remaining
       ]_vars

\* TP2 has just closed the half that TP1 had left.
C21_Witness ==
    /\ obs.who = "update_trade_tp2"
    /\ trades[obs.ref].tp1_achieved
    /\ trades[obs.ref].tp2_qty_closed > 0
    /\ trades[obs.ref].tp2_qty_closed < trades[obs.ref].original_qty_asset
    /\ trades[obs.ref].current_qty_asset = 0

\* ---- C22
\* The sum of the quantities logged in a sequence of execution details.
RECURSIVE SumQty(_)
SumQty(details) ==
    IF details = << >> THEN 0
    ELSE details[Len(details)].qty + SumQty(SubSeq(details, 1, Len(details) - 1))

\* C22: a step that changes a trade's realized_pnl_usd appends exactly one
\* execution detail, whose quantity is the decrease of current_qty_asset in that
\* step, and changes realized_pnl_usd by the signed price difference at the
\* detail's price times that quantity; a step that does not reduce
\* current_qty_asset leaves realized_pnl_usd unchanged; and always original
\* quantity = current quantity + the sum of the logged quantities.
C22_PnlFollowsClosedQty ==
    /\ [][ \A u \in DOMAIN trades :
              LET before == trades[u]
                  after == trades'[u]
                  closed == before.current_qty_asset - after.current_qty_asset
                  n == Len(after.execution_details)
              IN /\ after.realized_pnl_usd # before.realized_pnl_usd =>
                       /\ n = Len(before.execution_details) + 1
                       /\ after.execution_details[n].qty = closed
                       /\ after.realized_pnl_usd = before.realized_pnl_usd
                             + SignedDiff(before, after.execution_details[n].price) * closed
                 /\ closed <= 0 => after.realized_pnl_usd = before.realized_pnl_usd ]_vars
    /\ [](\A u \in DOMAIN trades :
              trades[u].original_qty_asset =
                  trades[u].current_qty_asset + SumQty(trades[u].execution_details))

\* ---- C23
LedgerMutators ==
    {"add_trade", "update_trade_status", "update_trade_tp1", "update_trade_tp2",
     "update_stop_loss_triggered", "close_trade_fully", "close_trade_partial",
     "deactivate_stop_losses"}

\* C23: when a mutating ledger operation has returned, the primary file holds
\* the dump of the in-memory trades, and the backup holds what the primary file
\* held just before the operation's write (an operation that refuses its
\* arguments, close_trade_partial with more than the remainder, writes nothing).
C23_FilesFollowEveryMutation ==
    [][ obs'.who \in LedgerMutators =>
          /\ json_file' = File(JsonDump(trades'))
          /\ \/ /\ json_file.exists
                /\ backup_file' = json_file
             \/ /\ ~json_file.exists
                /\ backup_file' = backup_file
             \/ /\ obs'.who = "close_trade_partial"
                /\ UNCHANGED << trades, json_file, backup_file >> ]_vars

\* A mutation has rewritten an existing primary file with new content.
C23_Witness ==
    /\ obs.who \in LedgerMutators
    /\ backup_file.exists
    /\ json_file.exists
    /\ backup_file # json_file
    /\ json_file = File(JsonDump(trades))

\* ---- C24
\* C24: a load with an unreadable primary file and a readable backup makes the
\* backup's content the trade set; with an unreadable primary file and a missing
\* or unreadable backup, or with no primary file, the ledger is empty; and no
\* load raises to its caller.
C24_LoadFallsBackOrStartsEmpty ==
    [][ obs'.who = "load_from_json" =>
          /\ ~obs'.error
          /\ (json_file.exists /\ ~json_file.valid /\ backup_file.exists /\ backup_file.valid)
                => trades' = JsonLoad(backup_file.content)
          /\ (json_file.exists /\ ~json_file.valid /\ ~(backup_file.exists /\ backup_file.valid))
                => trades' = << >>
          /\ ~json_file.exists => trades' = << >> ]_vars

\* A load has taken a non-empty trade set from the backup of an unreadable
\* primary file.
C24_Witness ==
    /\ obs.who = "load_from_json"
    /\ json_file.exists /\ ~json_file.valid
    /\ backup_file.exists /\ backup_file.valid
    /\ trades # << >>
    /\ trades = JsonLoad(backup_file.content)

\* A load has started empty next to an unreadable backup.
C24_WitnessEmpty ==
    /\ obs.who = "load_from_json"
    /\ json_file.exists /\ ~json_file.valid
    /\ backup_file.exists /\ ~backup_file.valid
    /\ trades = << >>

\* ---- C25
\* C25: after a load, from the primary file or from the backup, every loaded
\* trade has every field the migration knows, and none has the status "open".
C25_LoadedTradesHaveAllFields ==
    [][ obs'.who = "load_from_json" =>
          \A u \in DOMAIN trades' :
              /\ DOMAIN MigrationDefaults(trades'[u]) \subseteq DOMAIN trades'[u]
              /\ trades'[u].status # "open" ]_vars

\* ---- C26
\* a fresh ledger started on the files that ledger L leaves on disk
FreshLoad(L) == load_from_json(Ledger(<< >>, L.json_file, L.backup_file))

\* C26: saving the trade set and loading it into a fresh ledger gives the same
\* trades, field by field; and loading is idempotent: load, save, load gives the
\* trade set of a single load.
C26_SaveLoadRoundTrip ==
    /\ FreshLoad(save_to_json(TheLedger)).trades = trades
    /\ LET loaded == FreshLoad(TheLedger)
       IN FreshLoad(save_to_json(loaded)).trades = loaded.trades

\* ---- C27
\* C27: a call of add_candle_close_stop_loss with an empty id, asset or
\* timeframe, or a stop price or size that is not positive, returns false and
\* leaves the registry as it was; any other call leaves exactly the watch of its
\* arguments under its order_id, never checked against a candle, whether or not
\* the id was watched before, and leaves every other watch as it was.
C27_RegisterReplacesOneWatch ==
    [][ obs'.who = "add_candle_close_stop_loss" =>
          LET order_id == obs'.args[1]
              asset == obs'.args[2]
              stop_price == obs'.args[3]
              timeframe == obs'.args[4]
              is_long == obs'.args[5]
              position_size == obs'.args[6]
              refused == \/ order_id = StrEmpty \/ asset = "" \/ timeframe = ""
                         \/ stop_price <= 0 \/ position_size <= 0
          IN IF refused
             THEN obs'.error /\ active_stops' = active_stops
             ELSE /\ DOMAIN active_stops' = DOMAIN active_stops \cup {order_id}
                  /\ active_stops'[order_id] =
                        [order_id |-> order_id, asset |-> asset,
                         stop_price |-> stop_price, timeframe |-> timeframe,
                         is_long |-> is_long, position_size |-> position_size,
                         last_checked_candle |-> None]
                  /\ \A k \in DOMAIN active_stops \ {order_id} :
                        active_stops'[k] = active_stops[k] ]_vars

\* An order_id that was watched, and checked against a candle, has been
\* registered again with another stop price, next to another watch.
C27_Witness ==
    /\ obs.who = "add_candle_close_stop_loss"
    /\ ~obs.error
    /\ Cardinality(DOMAIN active_stops) = 2
    /\ << obs.args[1], 0 >> \in hist.seen
    /\ active_stops[obs.args[1]].last_checked_candle = None
    /\ \E k \in DOMAIN active_stops : active_stops[k].stop_price # obs.args[3]

\* ---- C28
\* C28: remove_stop_loss for an order_id that is not registered changes no
\* watch, no pending order and no flag, places no order and returns normally;
\* a TP or negation alert leaves every pending order of another symbol or
\* timeframe in place and unchanged, places no entry order, and with no pending
\* order of its own symbol and timeframe leaves the pending registry as it was
\* (and, with no trade of that pair either, places no order and changes no watch).
C28_RemovalsAreIdempotent ==
    /\ [][ (obs'.who = "remove_stop_loss" /\ obs'.args[1] \notin DOMAIN active_stops) =>
              /\ active_stops' = active_stops
              /\ monitoring' = monitoring
              /\ pending_trades' = pending_trades
              /\ market_orders' = market_orders
              /\ ~obs'.error ]_vars
    /\ [][ obs'.who \in {"tp_alert", "negation_alert"} =>
              LET symbol == obs'.args[1]
                  timeframe == obs'.args[2]
                  mine == { id \in DOMAIN pending_trades :
                              /\ pending_trades[id].symbol = symbol
                              /\ pending_trades[id].timeframe = timeframe }
                  traded == \E u \in DOMAIN trades :
                              trades[u].currency = symbol /\ trades[u].timeframe = timeframe
              IN /\ \A id \in DOMAIN pending_trades \ mine :
                       /\ id \in DOMAIN pending_trades'
                       /\ pending_trades'[id] = pending_trades[id]
                 /\ \A o \in market_orders' \ market_orders : o.by # "entry"
                 /\ mine = {} => pending_trades' = pending_trades
                 /\ (mine = {} /\ ~traded) =>
                       /\ market_orders' = market_orders
                       /\ active_stops' = active_stops
                       /\ ~obs'.error ]_vars

\* An alert has cancelled the pending order of its pair and left the other.
C28_Witness ==
    /\ obs.who \in {"tp_alert", "negation_alert"}
    /\ \E i \in DOMAIN PendingPairs :
          /\ PendingPairs[i] = obs.args
          /\ hist.cancelled = {i}
    /\ \E id \in DOMAIN pending_trades :
          << pending_trades[id].symbol, pending_trades[id].timeframe >> # obs.args

\* remove_stop_loss has been called for an order_id that is not registered,
\* next to a registered one.
C28_WitnessRemove ==
    /\ obs.who = "remove_stop_loss"
    /\ DOMAIN active_stops # {}
    /\ obs.args[1] \notin DOMAIN active_stops
    /\ << obs.args[1], 0 >> \notin hist.seen

\* ---- C29
\* the monitor loop has come to the watch of this order id
LoopCameTo(order_id) == obs.who = "candle" /\ obs.ref = order_id.n

\* C29: whenever the registry holds a watch, a monitor loop is running, and
\* every registered watch is eventually visited by the loop (or removed).
C29_RegisteredWatchIsEvaluated ==
    /\ [](DOMAIN active_stops # {} => cs.pc # "off")
    /\ \A order_id \in RegistryIds :
          (order_id \in DOMAIN active_stops)
              ~> (LoopCameTo(order_id) \/ order_id \notin DOMAIN active_stops)

\* ---- C30
\* A tick of the candle monitor ends: the for loop is left, by its end or by
\* the exception the outer try catches.
CsTickEnds == cs.pc = "scan" /\ cs'.pc # "scan"

\* A tick of the pending monitor leaves its for loop.
MonTickEnds == mon.pc = "scan" /\ mon'.pc # "scan"

\* C30: within one tick of either monitor, if evaluating one registry entry
\* raised an error, every other entry that was registered at the start of the
\* tick (and is still registered) has been evaluated when the tick ends, and the
\* tick loop keeps running for later ticks.
C30_EntryErrorSparesTheOthers ==
    [][ /\ (CsTickEnds /\ cs.raised) =>
              /\ cs.to_visit \cap DOMAIN active_stops' = {}
              /\ cs'.pc = "idle"
        /\ (MonTickEnds /\ mon'.raised) =>
              /\ mon'.to_scan \cap DOMAIN pending_trades' = {}
              /\ mon'.pc = "remove"
              /\ monitoring_active' ]_vars

\* The pending monitor's half of C30 alone.
C30_PendingHalf ==
    [][ (MonTickEnds /\ mon'.raised) =>
              /\ mon'.to_scan \cap DOMAIN pending_trades' = {}
              /\ mon'.pc = "remove"
              /\ monitoring_active' ]_vars

\* The candle monitor's half of C30 when the registry kept its size in the tick.
C30_CandleHalfUndisturbed ==
    [][ (CsTickEnds /\ cs.raised /\ ~SizeChanged) =>
              /\ cs.to_visit = {}
              /\ cs'.pc = "idle" ]_vars

\* ---- C31
\* One pass of the pending monitor's for loop is taken: the pass calls
\* get_reference_candle (fetch_ohlcv) and get_last_price (fetch_ticker).
TickFetches == mon.pc = "scan" /\ mon'.to_scan # mon.to_scan

\* C31: the tick loop of the pending monitor issues no candle fetch and no
\* price fetch while it holds pending_trades_lock.
C31_NoFetchUnderLock ==
    [][ TickFetches => pending_trades_lock # "monitor" ]_vars

\* ---- C32
\* The candle registry's key set changes while a tick of the candle monitor is
\* inside its for loop over the registry: the change is another thread's.
CandleRegistryChangedInScan ==
    cs.pc = "scan" /\ cs'.pc = "scan" /\ DOMAIN active_stops' # DOMAIN active_stops

\* The tick of the pending monitor pops its triggered and negated trades.
TickPops == mon.pc = "remove" /\ mon'.pc = "idle" /\ pending_trades' # pending_trades

\* The candle monitor's half of C32.
C32_CandleHalf == [][ ~CandleRegistryChangedInScan ]_vars

\* The pending monitor's half of C32.
C32_PendingHalf ==
    /\ [][ TickPops => pending_trades_lock = "monitor" ]_vars
    /\ [][ obs'.who \in {"tp_alert", "negation_alert"} => ~MonitorPops ]_vars

\* C32: every mutation of either monitor's registry is made while holding that
\* registry's mutex, so no registry is modified by one thread while another
\* thread iterates over it: the candle registry keeps its keys while a tick is
\* inside its for loop, the tick of the pending monitor pops under
\* pending_trades_lock, and no handler iterates over the pending registry while
\* pops of the tick are outstanding.
C32_RegistriesMutatedUnderMutex ==
    /\ [][ ~CandleRegistryChangedInScan ]_vars
    /\ [][ TickPops => pending_trades_lock = "monitor" ]_vars
    /\ [][ obs'.who \in {"tp_alert", "negation_alert"} => ~MonitorPops ]_vars

\* ---- C33
\* A pass of the candle monitor's for loop after which entries of the tick
\* remain to be evaluated.
CsPassWithRest == cs.pc = "scan" /\ cs'.pc = "scan" /\ cs'.to_visit # cs.to_visit

\* The pending monitor's half of C33: no pass of the scan places an order, the
\* orders of a tick are placed by the threads started after the scan.
C33_PendingHalf ==
    [][ TickFetches => market_orders' = market_orders /\ exec_threads' = exec_threads ]_vars

\* C33: in both monitors the order of a triggered entry is placed by a task of
\* its own, so within one tick no pass of the scan places an order while
\* entries of the tick remain to be evaluated.
C33_ScanNeverPlacesOrder ==
    [][ /\ CsPassWithRest => market_orders' = market_orders
        /\ TickFetches => market_orders' = market_orders /\ exec_threads' = exec_threads
      ]_vars

\* ---- C34
\* The successful flattening orders the candle monitor has placed for the watch
\* registered under order_id.
FlattenOrders(order_id) ==
    { o \in market_orders : o.by = "candle_sl" /\ o.ref = order_id.n }

\* C34: over the whole lifetime of a stop watch the candle monitor places at
\* most one successful flattening market order for it.
C34_AtMostOneFlatten ==
    \A order_id \in RegistryIds : Cardinality(FlattenOrders(order_id)) <= 1

\* ---- C35
\* The loop threads of the candle monitor that are alive: the one the model
\* follows and the older ones.
CandleLoops == (IF cs.pc = "off" THEN 0 ELSE 1) + cs.old + cs.old_stopping

\* The pending monitor's half of C35: at most one _monitor_prices thread has
\* been started (a started one never ends: nothing calls stop_monitoring).
C35_PendingHalf == mon.loops <= 1

\* C35: at most one tick-loop thread per monitor is alive at any time.
C35_AtMostOneLoopPerMonitor ==
    /\ CandleLoops <= 1
    /\ mon.loops <= 1

\* ---- C36
\* C36: in every reachable state the number of trades in status active or
\* tp1_achieved does not exceed the cap of 5.
C36_ActiveTradesWithinCap ==
    Cardinality(get_active_trades(trades)) <= MaxActiveTrades

\* ---- C37
\* The resting exchange-side stops requested for the position that the entry
\* order with the given id opened.
RestingStopsOf(oid) ==
    { so \in sl_orders :
        /\ so.resting
        /\ \E e \in market_orders : e.by = "entry" /\ e.order_id = oid /\ e.ref = so.ref }

\* C37: once the candle-close stop has flattened a position, no resting
\* exchange-side stop requested for that position at entry remains live.
C37_FlattenCancelsRestingStop ==
    \A o \in market_orders : o.by = "candle_sl" => RestingStopsOf(o.ref) = {}

\* ---- C38
\* The TP1 close orders filled for trade u.
Tp1OrdersOf(u) == { o \in market_orders : o.by = "tp1" /\ o.ref = u }

\* The execution details of trade u that record a TP1.
Tp1Records(u) ==
    { i \in DOMAIN trades[u].execution_details : trades[u].execution_details[i].type = "tp1" }

\* C38: for each trade at most one TP1 close order is ever placed and TP1 is
\* recorded at most once.
C38_Tp1AtMostOnce ==
    \A u \in DOMAIN trades :
        /\ Cardinality(Tp1OrdersOf(u)) <= 1
        /\ Cardinality(Tp1Records(u)) <= 1

\* ---- C39
\* json.load can read the file and gets a trade set from it.
Parseable(file) == file.exists /\ file.valid

\* The process has just died inside save_to_json.
AtCrashPoint == obs.who = "crash"

\* At a crash point, one of the primary file and the backup can be read.
C39_OneFileParseable == AtCrashPoint => Parseable(json_file) \/ Parseable(backup_file)

\* A crash of a process whose primary file was readable leaves a readable file.
C39_FirstCrashHalf ==
    [][ (~AtCrashPoint /\ AtCrashPoint' /\ Parseable(json_file))
            => (Parseable(json_file') \/ Parseable(backup_file')) ]_vars

\* C39: at every crash point inside save_to_json, restarts and further
\* mutations included, the primary file or the backup holds a complete trade
\* set, and a restart after trades were persisted never loads an empty ledger.
C39_CrashKeepsALedger ==
    /\ []C39_OneFileParseable
    /\ [][ (AtCrashPoint /\ ~AtCrashPoint') => trades' # << >> ]_vars

====
